---- MODULE Spec2Model ----
(***************************************************************************)
(* Job-dispatch control plane of opeva_backend_api_training: the job       *)
(* state machine (app/status.py), the filesystem queue                     *)
(* (app/utils/job_utils.py), the dispatcher, reaper and ops surface        *)
(* (app/services/job_service.py) and the worker agent (worker_agent.py).   *)
(*                                                                         *)
(* Spec      : every coordinator handler is one atomic step (one request   *)
(*             at a time), with a clock.                                   *)
(* SpecPop   : concurrent agent_next_job calls, one step per file-system   *)
(*             or cache access.                                            *)
(* SpecAgent : the worker agent's loop against the coordinator, with       *)
(*             POSTs that may be lost.                                     *)
(***************************************************************************)
EXTENDS Integers, Sequences, FiniteSets, TLC

VARIABLES
    jobs,            \* job_service.jobs: the in-memory mirror of the registry
    job_track,       \* job_track.json: the registry on disk
    status_files,    \* jobs/<job_id>/status.json
    queue,           \* queue/<job_id>.json: the pending entries
    claims,          \* queue/<job_id>.json.claim.<worker_id>
    host_heartbeats, \* job_service.host_heartbeats
    job_info,        \* jobs/<job_id>/job_info.json
    now,             \* time.time()
    last,            \* the last request and its answer (history)
    pc,              \* SpecPop: where each agent_next_job call stands
    loc,             \* SpecPop: the locals of each call
    agent            \* SpecAgent: the worker agent's process state

vars == <<jobs, job_track, status_files, queue, claims, host_heartbeats,
          job_info, now, last, pc, loc, agent>>

----------------------------------------------------------------------------
(* Bounds of the model *)

\* The clock advances TickStep seconds at a time, MaxTicks times at most. One
\* step is longer than every TTL, so a timestamp is either of this instant or
\* older than every TTL.
MaxTicks == 1
TickStep == 400

\* jobs submitted under Spec
MaxJobs == 1

\* uuid4() job ids, handed out in this order and never reused.
JobOrder == <<"j1", "j2">>
JobIds == {JobOrder[i] : i \in 1..Len(JobOrder)}

----------------------------------------------------------------------------
(* Settings (app/config.py) *)

AVAILABLE_HOSTS == {"w1", "w2"}
QUEUE_CLAIM_TTL == 300
HOST_HEARTBEAT_TTL == 60
WORKER_STALE_GRACE_SECONDS == 120
\* Read by _mark_stale_jobs as settings.JOB_STATUS_TTL; app/config.py does not
\* declare it, so the value is taken as a deployment setting.
JOB_STATUS_TTL == 300

\* worker ids a request may carry: the configured hosts and one that is not
WorkerIds == AVAILABLE_HOSTS \cup {"ghost"}

\* Python's None, and a key that a dict does not hold
None == "None"
Absent == "absent"
Falsy(x) == x \in {None, Absent, ""}

----------------------------------------------------------------------------
(* app/status.py *)

LAUNCHING == "launching"
QUEUED == "queued"
DISPATCHED == "dispatched"
RUNNING == "running"
FINISHED == "finished"
FAILED == "failed"
STOP_REQUESTED == "stop_requested"
STOPPED == "stopped"
NOT_FOUND == "not_found"
UNKNOWN == "unknown"
CANCELED == "canceled"

JobStatus == {LAUNCHING, QUEUED, DISPATCHED, RUNNING, FINISHED, FAILED,
              STOP_REQUESTED, STOPPED, NOT_FOUND, UNKNOWN, CANCELED}

TerminalStatuses == {FINISHED, FAILED, STOPPED, CANCELED}
ActiveStatuses == {DISPATCHED, RUNNING, STOP_REQUESTED}

\* the table without the reaper's requeue edge
ALLOWED_TRANSITIONS_noRequeue(cur) ==
    CASE cur = LAUNCHING -> {QUEUED, RUNNING, CANCELED}
      [] cur = QUEUED -> {DISPATCHED, CANCELED}
      [] cur = DISPATCHED -> {RUNNING, FAILED, CANCELED, STOP_REQUESTED}
      [] cur = RUNNING -> {FINISHED, FAILED, STOP_REQUESTED, STOPPED, CANCELED}
      [] cur = STOP_REQUESTED -> {STOPPED, FAILED, CANCELED}
      [] OTHER -> {}

ALLOWED_TRANSITIONS(cur) ==
    CASE cur = LAUNCHING -> {QUEUED, RUNNING, CANCELED}
      [] cur = QUEUED -> {DISPATCHED, CANCELED}
      [] cur = DISPATCHED -> {RUNNING, FAILED, CANCELED, STOP_REQUESTED, QUEUED}
      [] cur = RUNNING -> {FINISHED, FAILED, STOP_REQUESTED, STOPPED, CANCELED}
      [] cur = STOP_REQUESTED -> {STOPPED, FAILED, CANCELED}
      [] OTHER -> {}

can_transition(current, new) ==
    IF current \notin JobStatus \/ new \notin JobStatus THEN FALSE
    ELSE IF new \in {NOT_FOUND, UNKNOWN} THEN TRUE
    ELSE new \in ALLOWED_TRANSITIONS(current)

----------------------------------------------------------------------------
(* Records *)

NoJob == [nojob |-> TRUE]      \* job_id not in the registry
NoFile == [nofile |-> TRUE]    \* the file does not exist
NoTime == 0 - 1                \* no timestamp: None, or the key is not there
NoCode == 0 - 1                \* no exit_code key

\* The keys a status update may carry besides status_updated_at.
NoExtra ==
    [worker_id |-> Absent, container_id |-> Absent, exit_code |-> NoCode,
     error |-> Absent, requeued_from |-> Absent, preferred_host |-> Absent,
     stale_status |-> FALSE]

\* dict.update(extra): the keys extra holds replace those of meta. Of the keys
\* of a registry record the model keeps those a handler reads back
\* (status, target_host, preferred_host, require_host) and status_updated_at,
\* container_id and exit_code; worker_id, error and requeued_from are kept in
\* the status file only.
Merge(meta, extra, t) ==
    [meta EXCEPT
        !.status_updated_at = t,
        !.container_id = IF extra.container_id # Absent THEN extra.container_id ELSE @,
        !.exit_code = IF extra.exit_code # NoCode THEN extra.exit_code ELSE @,
        !.preferred_host = IF extra.preferred_host # Absent THEN extra.preferred_host ELSE @]

\* The coordinator's durable and in-memory state as one value
Store ==
    [jobs |-> jobs, job_track |-> job_track, status_files |-> status_files,
     queue |-> queue, claims |-> claims, host_heartbeats |-> host_heartbeats,
     job_info |-> job_info]

Install(S) ==
    /\ jobs' = S.jobs
    /\ job_track' = S.job_track
    /\ status_files' = S.status_files
    /\ queue' = S.queue
    /\ claims' = S.claims
    /\ host_heartbeats' = S.host_heartbeats
    /\ job_info' = S.job_info

----------------------------------------------------------------------------
(* app/utils/job_utils.py *)

is_valid_host(name) == name \in AVAILABLE_HOSTS

save_job(S, job_id, metadata) == [S EXCEPT !.job_track[job_id] = metadata]

\* The payload replaces the file: keys of an earlier write are not kept.
write_status_file(S, job_id, status, extra, t) ==
    [S EXCEPT !.status_files[job_id] =
        [status |-> status, status_updated_at |-> t,
         worker_id |-> extra.worker_id, container_id |-> extra.container_id,
         exit_code |-> extra.exit_code, error |-> extra.error,
         requeued_from |-> extra.requeued_from,
         preferred_host |-> extra.preferred_host,
         stale_status |-> extra.stale_status]]

\* open(path, "w"): a new file, or the old one rewritten, with mtime = now
\* job_info.json as save_job_info writes it. Of its keys the model keeps
\* target_host, the one the dispatcher and the status reports rewrite.
save_job_info(S, job_id, host) ==
    [S EXCEPT !.job_info[job_id] = [target_host |-> host]]

enqueue_job(S, job_id, preferred, require_host, t) ==
    [S EXCEPT !.queue[job_id] =
        [preferred_host |-> preferred, require_host |-> require_host, mtime |-> t]]

\* os.replace keeps the content and the mtime of the file it renames. A claim
\* file also carries the time of the rename that made it (claimed_at), which
\* no code reads.
ClaimOf(entry, t) ==
    [preferred_host |-> entry.preferred_host, require_host |-> entry.require_host,
     mtime |-> entry.mtime, claimed_at |-> t]
EntryOf(c) ==
    [preferred_host |-> c.preferred_host, require_host |-> c.require_host,
     mtime |-> c.mtime]

remove_from_queue_noclaims(S, job_id) ==
    [S EXCEPT !.queue[job_id] = NoFile]

remove_from_queue(S, job_id) ==
    [S EXCEPT !.queue[job_id] = NoFile,
              !.claims[job_id] = [w \in WorkerIds |-> NoFile]]

----------------------------------------------------------------------------
(* app/services/job_service.py: the registry mirror and the status writers *)

_refresh_jobs(S) == [S EXCEPT !.jobs = S.job_track]

_persist_job(S, job_id, metadata) ==
    [S EXCEPT !.job_track[job_id] = metadata, !.jobs[job_id] = metadata]

_job_exists(S, job_id) == S.jobs[job_id] # NoJob \/ S.job_track[job_id] # NoJob

_read_status_file(S, job_id) ==
    IF S.status_files[job_id] = NoFile THEN None
    ELSE S.status_files[job_id].status

_status_last_update(S, job_id) ==
    IF S.status_files[job_id] = NoFile THEN NoTime
    ELSE S.status_files[job_id].status_updated_at

\* the status a job's status file holds, None when there is no file
FileStatus(sf, j) == IF sf[j] = NoFile THEN None ELSE sf[j].status

\* status_now = _read_status_file(job_id) or meta.get("status", UNKNOWN)
StatusNow(S, job_id, meta) ==
    IF _read_status_file(S, job_id) # None THEN _read_status_file(S, job_id)
    ELSE IF meta = NoJob \/ Falsy(meta.status) THEN UNKNOWN
    ELSE meta.status

TransitionRefused_unchecked(prev, status) == FALSE

TransitionRefused_repeats(prev, status) ==
    prev # None /\ ~can_transition(prev, status)

\* the guard of _write_status
TransitionRefused(prev, status) ==
    prev # None /\ prev # status /\ ~can_transition(prev, status)

\* _write_status after its guard: the status file is written, then the cache
\* entry, when there is one, is updated and saved
PersistStatus(S, job_id, status, extra, t) ==
    LET S1 == write_status_file(S, job_id, status, extra, t)
        m == IF S1.jobs[job_id] = NoJob THEN NoJob
             ELSE Merge([S1.jobs[job_id] EXCEPT !.status = status], extra, t)
    IN IF m = NoJob THEN S1
       ELSE [S1 EXCEPT !.jobs[job_id] = m, !.job_track[job_id] = m]

\* [ok, S]: ok = FALSE is the ValueError, raised before anything is written
_write_status(S, job_id, status, extra, t) ==
    LET prev == _read_status_file(S, job_id) IN
    IF TransitionRefused(prev, status) THEN [ok |-> FALSE, S |-> S]
    ELSE [ok |-> TRUE, S |-> PersistStatus(S, job_id, status, extra, t)]

_force_status(S, job_id, status, extra, t) ==
    LET S1 == write_status_file(S, job_id, status, extra, t)
        meta == IF S1.jobs[job_id] # NoJob THEN S1.jobs[job_id]
                ELSE S1.job_track[job_id]
    IN IF meta = NoJob THEN S1
       ELSE LET m == Merge([meta EXCEPT !.status = status], extra, t)
            IN [S1 EXCEPT !.jobs[job_id] = m, !.job_track[job_id] = m]

\* a heartbeat table that takes any worker_id
record_host_heartbeat_any(S, worker_id, t) ==
    [ok |-> TRUE,
     S |-> [S EXCEPT !.host_heartbeats =
               [w \in DOMAIN S.host_heartbeats \cup {worker_id} |->
                   IF w = worker_id THEN t ELSE S.host_heartbeats[w]]]]

\* [ok, S]: ok = FALSE is the HTTPException(400)
record_host_heartbeat(S, worker_id, t) ==
    IF ~is_valid_host(worker_id) THEN [ok |-> FALSE, S |-> S]
    ELSE [ok |-> TRUE, S |-> [S EXCEPT !.host_heartbeats[worker_id] = t]]

----------------------------------------------------------------------------
(* The reaper: _mark_stale_jobs *)

\* preferred = meta.get("preferred_host") or meta.get("target_host")
RequeuePreferred(meta) ==
    IF ~Falsy(meta.preferred_host) THEN meta.preferred_host
    ELSE IF ~Falsy(meta.target_host) THEN meta.target_host
    ELSE None

\* a status of any age is stale
StatusStale_anyAge(S, job_id, t) ==
    _status_last_update(S, job_id) \notin {NoTime, 0}

\* last_update and (now - last_update) > settings.JOB_STATUS_TTL
StatusStale(S, job_id, t) ==
    LET last_update == _status_last_update(S, job_id) IN
    /\ last_update \notin {NoTime, 0}
    /\ (t - last_update) > JOB_STATUS_TTL

HostOffline_never(S, host, t) == FALSE

\* a host with no heartbeat on record is given a chance
HostOffline(S, host, t) ==
    /\ ~Falsy(host)
    /\ host \in DOMAIN S.host_heartbeats
    /\ S.host_heartbeats[host] # NoTime
    /\ (t - S.host_heartbeats[host]) > HOST_HEARTBEAT_TTL + WORKER_STALE_GRACE_SECONDS

\* the requeue of a DISPATCHED job: enqueue, registry, then the status write
ReapRequeue(S, job_id, meta, stale, t) ==
    LET preferred == RequeuePreferred(meta)
        S1 == enqueue_job(S, job_id, preferred, meta.require_host, t)
        S2 == _persist_job(S1, job_id, [meta EXCEPT !.status = QUEUED])
    IN _write_status(S2, job_id, QUEUED,
                     [NoExtra EXCEPT !.requeued_from = meta.target_host,
                                     !.preferred_host = preferred,
                                     !.stale_status = stale], t)

\* a reaper that puts every job it acts on back in the queue
ReapFail_requeues(S, job_id, err, t) ==
    ReapRequeue(S, job_id, S.jobs[job_id], err = "stale_status", t)

\* the failing of a RUNNING or STOP_REQUESTED job: the status write, then the registry
ReapFail(S, job_id, err, t) ==
    LET r == _write_status(S, job_id, FAILED, [NoExtra EXCEPT !.error = err], t)
    IN IF ~r.ok THEN r
       ELSE [ok |-> TRUE,
             S |-> _persist_job(r.S, job_id, [r.S.jobs[job_id] EXCEPT !.status = FAILED])]

\* one iteration of the loop of _mark_stale_jobs: [ok, S], ok = FALSE a ValueError
ReapJob(S, job_id, t) ==
    LET meta == S.jobs[job_id] IN
    IF meta = NoJob \/ meta.status \notin ActiveStatuses THEN [ok |-> TRUE, S |-> S]
    ELSE IF StatusStale(S, job_id, t) THEN
        IF meta.status = DISPATCHED THEN ReapRequeue(S, job_id, meta, TRUE, t)
        ELSE ReapFail(S, job_id, "stale_status", t)
    ELSE IF HostOffline(S, meta.target_host, t) THEN
        IF meta.status = DISPATCHED THEN ReapRequeue(S, job_id, meta, FALSE, t)
        ELSE ReapFail(S, job_id, "worker_offline", t)
    ELSE [ok |-> TRUE, S |-> S]

RECURSIVE ReapFrom(_, _, _)
ReapFrom(S, i, t) ==
    IF i > Len(JobOrder) THEN [ok |-> TRUE, S |-> S]
    ELSE LET r == ReapJob(S, JobOrder[i], t)
         IN IF ~r.ok THEN r ELSE ReapFrom(r.S, i + 1, t)

_mark_stale_jobs(S, t) == ReapFrom(S, 1, t)

----------------------------------------------------------------------------
(* The queue claim: agent_pop_next_job, one call at a time *)

\* a claim file keeps the mtime of the entry it was renamed from
ClaimIsStale(c, t) == c # NoFile /\ ~((t - c.mtime) < QUEUE_CLAIM_TTL)

StaleClaimers(S, job_id, t) ==
    {w \in WorkerIds : ClaimIsStale(S.claims[job_id][w], t)}

\* which stale claim file of a job is renamed back last (os.listdir order)
RestoreChoices(S, t) ==
    {f \in [JobIds -> WorkerIds \cup {None}] :
        \A j \in JobIds :
            IF StaleClaimers(S, j, t) = {} THEN f[j] = None
            ELSE f[j] \in StaleClaimers(S, j, t)}

_restore_stale_claims(S, t, f) ==
    [S EXCEPT
        !.queue = [j \in JobIds |->
                     IF f[j] # None THEN EntryOf(S.claims[j][f[j]]) ELSE S.queue[j]],
        !.claims = [j \in JobIds |-> [w \in WorkerIds |->
                     IF ClaimIsStale(S.claims[j][w], t) THEN NoFile
                     ELSE S.claims[j][w]]]]

Pending(S) == {j \in JobIds : S.queue[j] # NoFile}

\* the entries in the order of os.listdir, not sorted
SortedOrders_listdir(S) ==
    LET P == Pending(S)
        n == Cardinality(P)
    IN {o \in [1..n -> P] : \A a, b \in 1..n : a # b => o[a] # o[b]}

\* sorted(files, key=getmtime): the entries by mtime, ties in any order
SortedOrders(S) ==
    LET P == Pending(S)
        n == Cardinality(P)
    IN {o \in [1..n -> P] :
          /\ \A a, b \in 1..n : a # b => o[a] # o[b]
          /\ \A a, b \in 1..n : a < b => S.queue[o[a]].mtime <= S.queue[o[b]].mtime}

HostMismatch_ignored(entry, worker_id) == FALSE

\* preferred and preferred != worker_id and require_host
HostMismatch(entry, worker_id) ==
    /\ ~Falsy(entry.preferred_host)
    /\ entry.preferred_host # worker_id
    /\ entry.require_host

\* the loop over the sorted files: [S, job], job = None when nothing is returned
RECURSIVE PopScan(_, _, _, _)
PopScan(S, worker_id, order, i) ==
    IF i > Len(order) THEN [S |-> S, job |-> None, entry |-> NoFile]
    ELSE LET j == order[i]
             entry == S.queue[j]
         IN IF HostMismatch(entry, worker_id)
            THEN \* renamed to the claim file and back: an older claim file of
                 \* this worker for the job is overwritten on the way
                 PopScan([S EXCEPT !.claims[j][worker_id] = NoFile],
                         worker_id, order, i + 1)
            ELSE [S |-> [S EXCEPT !.queue[j] = NoFile,
                                  !.claims[j][worker_id] = NoFile],
                  job |-> j, entry |-> entry]

agent_pop_next_job(S, worker_id, t, f, order) ==
    PopScan(_restore_stale_claims(S, t, f), worker_id, order, 1)

\* the os.listdir and sort orders a call may meet
PopChoices(S, t) ==
    UNION {{[f |-> f, order |-> o] : o \in SortedOrders(_restore_stale_claims(S, t, f))}
            : f \in RestoreChoices(S, t)}

----------------------------------------------------------------------------
(* The handlers of job_service.py. Each gives the state it leaves and the    *)
(* HTTP code of the answer; 500 is an exception no handler catches.          *)

NewMeta(preferred) ==
    [status |-> LAUNCHING, target_host |-> preferred, preferred_host |-> preferred,
     require_host |-> ~Falsy(preferred), status_updated_at |-> NoTime,
     container_id |-> Absent, exit_code |-> NoCode]

\* job ids that were handed out: those a file or a record is left of
UsedIds(S) ==
    {j \in JobIds : \/ S.job_track[j] # NoJob \/ S.status_files[j] # NoFile
                    \/ S.job_info[j] # NoFile \/ S.queue[j] # NoFile
                    \/ \E w \in WorkerIds : S.claims[j][w] # NoFile}
FreshIndex(S) == CHOOSE i \in 1..Len(JobOrder) :
                    /\ JobOrder[i] \notin UsedIds(S)
                    /\ \A k \in 1..(i - 1) : JobOrder[k] \in UsedIds(S)

\* every request taken as naming no host
_preferred_host_none(requested) == None

\* _preferred_host: "" is no host
_preferred_host(requested) == IF Falsy(requested) THEN None ELSE requested

\* JobLaunchRequest: a body that leaves target_host out gets the default
JobLaunchRequest(target_host) ==
    IF target_host = Absent THEN "local" ELSE target_host

\* an answer that is an HTTPException
Rejected(S, code) == [S |-> S, code |-> code, job |-> None, host |-> None]

\* a launch that records the job before it looks at the config
LaunchOn_persistsFirst(hosts, S, target_host, cfg, t) ==
    IF hosts = {} THEN Rejected(S, 503)
    ELSE IF ~Falsy(target_host) /\ target_host \notin hosts THEN Rejected(S, 400)
    ELSE LET preferred == _preferred_host(target_host)
             job_id == JobOrder[FreshIndex(S)]
             S0 == _persist_job(S, job_id, NewMeta(preferred))
             r1 == _write_status(S0, job_id, LAUNCHING,
                                 [NoExtra EXCEPT !.preferred_host = preferred], t)
             S2 == enqueue_job(r1.S, job_id, preferred, ~Falsy(preferred), t)
             S3 == _persist_job(S2, job_id, [S2.jobs[job_id] EXCEPT !.status = QUEUED])
             r2 == _write_status(S3, job_id, QUEUED,
                                 [NoExtra EXCEPT !.preferred_host = preferred], t)
         IN IF cfg # "ok" THEN Rejected(r1.S, 400)
            ELSE [S |-> r2.S, code |-> 200, job |-> job_id, host |-> preferred]

\* launch_simulation where settings.AVAILABLE_HOSTS is hosts.
\* cfg: "ok", "traversal" (config_path leaves the configs root) or "missing"
\* (neither config nor config_path)
LaunchOn(hosts, S, target_host, cfg, t) ==
    IF hosts = {} THEN Rejected(S, 503)
    ELSE IF ~Falsy(target_host) /\ target_host \notin hosts THEN Rejected(S, 400)
    ELSE IF cfg # "ok" THEN Rejected(S, 400)
    ELSE LET preferred == _preferred_host(target_host)
             job_id == JobOrder[FreshIndex(S)]
             S0 == _persist_job(S, job_id, NewMeta(preferred))
             S1 == save_job_info(S0, job_id, IF preferred = None THEN "" ELSE preferred)
             r1 == _write_status(S1, job_id, LAUNCHING,
                                 [NoExtra EXCEPT !.preferred_host = preferred], t)
             S2 == enqueue_job(r1.S, job_id, preferred, ~Falsy(preferred), t)
             S3 == _persist_job(S2, job_id, [S2.jobs[job_id] EXCEPT !.status = QUEUED])
             r2 == _write_status(S3, job_id, QUEUED,
                                 [NoExtra EXCEPT !.preferred_host = preferred], t)
         IN [S |-> r2.S, code |-> 200, job |-> job_id, host |-> preferred]

launch_simulation(S, target_host, cfg, t) ==
    LaunchOn(AVAILABLE_HOSTS, S, target_host, cfg, t)

\* agent_next_job: the registry record, then the status file, are set to
\* DISPATCHED
DispatchWrite(S, job_id, meta, worker_id, t) ==
    _write_status(_persist_job(S, job_id,
                     [meta EXCEPT !.status = DISPATCHED, !.target_host = worker_id]),
                  job_id, DISPATCHED, [NoExtra EXCEPT !.worker_id = worker_id], t)

\* a dispatch that leaves job_info.json alone
DispatchInfo_skipped(S, job_id, worker_id) == S

\* agent_next_job: info["target_host"] = worker_id, in a job_info.json that
\* is created when it is not there
DispatchInfo(S, job_id, worker_id) ==
    [S EXCEPT !.job_info[job_id] = [target_host |-> worker_id]]

\* agent_next_job after the queue pop p
NextJobAfterPop(p, worker_id, t) ==
    IF p.job = None THEN [S |-> p.S, code |-> 204, job |-> None]
    ELSE LET meta == p.S.jobs[p.job] IN
         IF meta = NoJob THEN [S |-> p.S, code |-> 204, job |-> None]
         ELSE IF StatusNow(p.S, p.job, meta) \notin {QUEUED, LAUNCHING}
             THEN [S |-> p.S, code |-> 204, job |-> None]
         ELSE LET r == DispatchWrite(p.S, p.job, meta, worker_id, t)
              IN IF r.ok THEN [S |-> DispatchInfo(r.S, p.job, worker_id),
                               code |-> 200, job |-> p.job]
                 ELSE [S |-> r.S, code |-> 500, job |-> None]

\* the outcomes of agent_next_job(worker_id)
agent_next_job(S, worker_id, t) ==
    LET r == _mark_stale_jobs(_refresh_jobs(S), t) IN
    IF ~r.ok THEN {[S |-> r.S, code |-> 500, job |-> None]}
    ELSE {NextJobAfterPop(agent_pop_next_job(r.S, worker_id, t, c.f, c.order),
                          worker_id, t) : c \in PopChoices(r.S, t)}

\* the container fields of a report, written into the registry record
MergeInfo(meta, extra) ==
    [meta EXCEPT
        !.container_id = IF extra.container_id # Absent THEN extra.container_id ELSE @,
        !.exit_code = IF extra.exit_code # NoCode THEN extra.exit_code ELSE @]

\* the report carries container_id, container_name, exit_code, error or details
HasInfoKeys(extra) ==
    extra.container_id # Absent \/ extra.exit_code # NoCode \/ extra.error # Absent

\* agent_update_status: job_info.json is rewritten when the report carries
\* container info, with target_host = worker when the report names one
ReportInfo(S, job_id, extra) ==
    IF ~HasInfoKeys(extra) THEN S
    ELSE IF ~Falsy(extra.worker_id)
        THEN [S EXCEPT !.job_info[job_id] = [target_host |-> extra.worker_id]]
    ELSE IF S.job_info[job_id] = NoFile
        THEN [S EXCEPT !.job_info[job_id] = [target_host |-> Absent]]
    ELSE S

\* agent_update_status after the reaper, from the existence check on
ReportAfterReap(S, job_id, status, extra, t) ==
    IF ~_job_exists(S, job_id) THEN [S |-> S, code |-> 404]
    ELSE IF status \notin JobStatus THEN [S |-> S, code |-> 400]
    ELSE LET r == _write_status(S, job_id, status, extra, t) IN
         IF ~r.ok THEN [S |-> S, code |-> 409]
         ELSE LET S1 == IF status # QUEUED THEN remove_from_queue(r.S, job_id) ELSE r.S
                  worker == extra.worker_id
                  S2 == IF Falsy(worker) THEN S1
                        ELSE record_host_heartbeat(S1, worker, t).S
                  S3 == IF ~Falsy(worker) /\ S2.jobs[job_id] # NoJob
                           /\ S2.jobs[job_id].target_host # worker
                        THEN _persist_job(S2, job_id,
                                 [S2.jobs[job_id] EXCEPT !.target_host = worker])
                        ELSE S2
                  S4 == IF HasInfoKeys(extra) /\ S3.job_track[job_id] # NoJob
                        THEN _persist_job(S3, job_id, MergeInfo(S3.job_track[job_id], extra))
                        ELSE S3
              IN [S |-> ReportInfo(S4, job_id, extra), code |-> 200]

agent_update_status(S, job_id, status, extra, t) ==
    LET r == _mark_stale_jobs(_refresh_jobs(S), t) IN
    IF ~r.ok THEN [S |-> r.S, code |-> 500]
    ELSE ReportAfterReap(r.S, job_id, status, extra, t)

\* a stop that cancels a running job outright
StopTarget_cancelsRunning(status_now) ==
    IF status_now \in {LAUNCHING, QUEUED, RUNNING} THEN CANCELED
    ELSE IF status_now = DISPATCHED THEN STOP_REQUESTED
    ELSE None

\* stop_job: the status it writes for status_now, None when it writes nothing
StopTarget(status_now) ==
    IF status_now \in {LAUNCHING, QUEUED} THEN CANCELED
    ELSE IF status_now \in {DISPATCHED, RUNNING} THEN STOP_REQUESTED
    ELSE None

\* stop_job after status_now was read: the queue entry is removed, then the
\* status is written and the registry record persisted. target: the status
\* written, None when nothing was
StopAfterRead(S, job_id, status_now, t) ==
    LET S1 == remove_from_queue(S, job_id)
        target == StopTarget(status_now)
    IN IF target = None THEN [S |-> S1, code |-> 200, target |-> None]
       ELSE LET r == _write_status(S1, job_id, target, NoExtra, t) IN
            IF ~r.ok THEN [S |-> r.S, code |-> 500, target |-> None]
            ELSE [S |-> IF r.S.jobs[job_id] = NoJob THEN r.S
                        ELSE _persist_job(r.S, job_id,
                                 [r.S.jobs[job_id] EXCEPT !.status = target]),
                  code |-> 200, target |-> target]

stop_job(S0, job_id, t) ==
    LET S == _refresh_jobs(S0)
        job == S.jobs[job_id]
    IN IF job = NoJob THEN [S |-> S, code |-> 404, target |-> None]
       ELSE StopAfterRead(S, job_id, StatusNow(S, job_id, job), t)

\* list_jobs, get_job_info, get_hosts: the refresh and the sweep
list_jobs(S, t) ==
    LET r == _mark_stale_jobs(_refresh_jobs(S), t) IN
    [S |-> r.S, code |-> IF r.ok THEN 200 ELSE 500]

----------------------------------------------------------------------------
(* The ops surface *)

\* require_host of the request: "None" when the body leaves it out
RequeueRequire(meta, require_host) ==
    IF require_host = None THEN meta.require_host ELSE require_host = "true"

\* the statuses an ops call without force refuses with 409
RequeueRefused(status_now) == status_now \in TerminalStatuses \cup {RUNNING, STOP_REQUESTED}
FailRefused_terminalOnly(status_now) == status_now \in TerminalStatuses
FailRefused(status_now) == status_now \in TerminalStatuses \cup {QUEUED, LAUNCHING}
CancelRefused(status_now) == status_now \in TerminalStatuses

\* an ops write that goes through the state machine even when forced
OpsWrite_checked(S, job_id, status, extra, force, t) ==
    LET r == _write_status(S, job_id, status, extra, t) IN
    [S |-> r.S, code |-> IF r.ok THEN 200 ELSE 500]

\* force decides between the override and the checked write
OpsWrite(S, job_id, status, extra, force, t) ==
    IF force THEN [S |-> _force_status(S, job_id, status, extra, t), code |-> 200]
    ELSE LET r == _write_status(S, job_id, status, extra, t) IN
         [S |-> r.S, code |-> IF r.ok THEN 200 ELSE 500]

ops_requeue_job(S0, job_id, force, preferred_host, require_host, t) ==
    LET S == _refresh_jobs(S0) IN
    IF ~_job_exists(S, job_id) THEN [S |-> S, code |-> 404]
    ELSE LET meta == S.jobs[job_id]
             status_now == StatusNow(S, job_id, meta)
             preferred == IF ~Falsy(preferred_host) THEN preferred_host
                          ELSE RequeuePreferred(meta)
             req == RequeueRequire(meta, require_host)
         IN IF ~Falsy(preferred_host) /\ ~is_valid_host(preferred_host)
                THEN [S |-> S, code |-> 400]
            ELSE IF ~force /\ RequeueRefused(status_now)
                THEN [S |-> S, code |-> 409]
            ELSE LET S1 == enqueue_job(remove_from_queue(S, job_id), job_id, preferred, req, t)
                     S2 == _persist_job(S1, job_id,
                              [meta EXCEPT !.status = QUEUED,
                                           !.preferred_host = preferred,
                                           !.require_host = req,
                                           !.target_host = IF req THEN preferred ELSE None])
                 IN OpsWrite(S2, job_id, QUEUED,
                             [NoExtra EXCEPT !.requeued_from = meta.target_host,
                                             !.preferred_host = preferred], force, t)

ops_fail_job(S0, job_id, force, t) ==
    LET S == _refresh_jobs(S0) IN
    IF ~_job_exists(S, job_id) THEN [S |-> S, code |-> 404]
    ELSE LET meta == S.jobs[job_id]
             status_now == StatusNow(S, job_id, meta)
         IN IF ~force /\ FailRefused(status_now)
                THEN [S |-> S, code |-> 409]
            ELSE LET S1 == remove_from_queue(S, job_id)
                     S2 == _persist_job(S1, job_id,
                              [meta EXCEPT !.status = FAILED])
                 IN OpsWrite(S2, job_id, FAILED,
                             [NoExtra EXCEPT !.error = "ops_failed"], force, t)

ops_cancel_job(S0, job_id, force, t) ==
    LET S == _refresh_jobs(S0) IN
    IF ~_job_exists(S, job_id) THEN [S |-> S, code |-> 404]
    ELSE LET meta == S.jobs[job_id]
             status_now == StatusNow(S, job_id, meta)
         IN IF ~force /\ CancelRefused(status_now)
                THEN [S |-> S, code |-> 409]
            ELSE LET S1 == remove_from_queue(S, job_id)
                     S2 == _persist_job(S1, job_id,
                              [meta EXCEPT !.status = CANCELED])
                 IN OpsWrite(S2, job_id, CANCELED,
                             [NoExtra EXCEPT !.error = "ops_canceled"], force, t)

\* ops_cleanup_queue: the entry of job_id is deleted when the job is not in
\* the registry or its status is not QUEUED or LAUNCHING
CleanupDeletes(S, job_id) ==
    /\ S.queue[job_id] # NoFile
    /\ LET meta == IF S.jobs[job_id] # NoJob THEN S.jobs[job_id] ELSE S.job_track[job_id]
           status_now == IF _read_status_file(S, job_id) # None
                         THEN _read_status_file(S, job_id)
                         ELSE IF meta = NoJob THEN None ELSE meta.status
       IN meta = NoJob \/ status_now \notin {QUEUED, LAUNCHING}

\* def ops_cleanup_queue() takes no parameter: a call that passes arguments
\* raises TypeError before the body runs, which the endpoint answers with 500
ops_cleanup_queue(S0, args) ==
    IF args # <<>> THEN [S |-> S0, code |-> 500, removed |-> {}]
    ELSE LET S == _refresh_jobs(S0)
             removed == {j \in JobIds : CleanupDeletes(S, j)}
         IN [S |-> [S EXCEPT !.queue = [j \in JobIds |->
                                          IF j \in removed THEN NoFile ELSE S.queue[j]]],
             code |-> 200, removed |-> removed]

\* ops_controller.cleanup_queue(force): job_service.ops_cleanup_queue(force)
cleanup_queue(S, force) == ops_cleanup_queue(S, <<force>>)

\* a delete that forgets the job directory
delete_job_by_id_keepsFiles(S, job_id) ==
    [S EXCEPT !.job_track[job_id] = NoJob]

\* job_utils.delete_job_by_id: rmtree of the job directory (status.json,
\* job_info.json) and the registry record; the queue directory is not touched
delete_job_by_id(S, job_id) ==
    [S EXCEPT !.status_files[job_id] = NoFile,
              !.job_info[job_id] = NoFile,
              !.job_track[job_id] = NoJob]

delete_job(S0, job_id, t) ==
    LET r == _mark_stale_jobs(_refresh_jobs(S0), t) IN
    IF ~r.ok THEN [S |-> r.S, code |-> 500]
    ELSE IF r.S.jobs[job_id] = NoJob THEN [S |-> r.S, code |-> 404]
    ELSE LET S1 == delete_job_by_id(r.S, job_id)
         IN [S |-> [S1 EXCEPT !.jobs[job_id] = NoJob], code |-> 200]

\* A request that dies in agent_pop_next_job between the rename to the claim
\* file and its removal: the claim file of the first entry is left behind.
PopCrash(S, worker_id, t, f, order) ==
    LET S1 == _restore_stale_claims(S, t, f)
        j == order[1]
    IN [S1 EXCEPT !.queue[j] = NoFile, !.claims[j][worker_id] = ClaimOf(S1.queue[j], t)]

----------------------------------------------------------------------------
(* Spec: one request at a time *)

EmptyStore ==
    [jobs |-> [j \in JobIds |-> NoJob],
     job_track |-> [j \in JobIds |-> NoJob],
     status_files |-> [j \in JobIds |-> NoFile],
     queue |-> [j \in JobIds |-> NoFile],
     claims |-> [j \in JobIds |-> [w \in WorkerIds |-> NoFile]],
     host_heartbeats |-> [w \in AVAILABLE_HOSTS |-> NoTime],
     job_info |-> [j \in JobIds |-> NoFile]]

\* the last request: its operation, its job, the polling worker, and the code
Answer(op, job, worker, code) ==
    [op |-> op, job |-> job, worker |-> worker, code |-> code]

\* the processes of SpecPop and SpecAgent do not run under Spec
Idle == /\ pc = [p \in {} |-> 0]
        /\ loc = [p \in {} |-> 0]
        /\ agent = [w \in {} |-> 0]

\* the coordinator after start-up: no job, empty queue, no heartbeat
InitStore ==
    /\ jobs = EmptyStore.jobs
    /\ job_track = EmptyStore.job_track
    /\ status_files = EmptyStore.status_files
    /\ queue = EmptyStore.queue
    /\ claims = EmptyStore.claims
    /\ host_heartbeats = EmptyStore.host_heartbeats
    /\ job_info = EmptyStore.job_info
    /\ now = TickStep
    /\ last = Answer("init", None, None, 200)

Init == InitStore /\ Idle

Tick ==
    /\ now < (MaxTicks + 1) * TickStep
    /\ now' = now + TickStep
    /\ UNCHANGED <<jobs, job_track, status_files, queue, claims, host_heartbeats, job_info,
                   last, pc, loc, agent>>

Launch(target_host, cfg) ==
    /\ Cardinality(UsedIds(Store)) < MaxJobs
    /\ UsedIds(Store) # JobIds
    /\ \E r \in {launch_simulation(Store, JobLaunchRequest(target_host), cfg, now)} :
        /\ Install(r.S)
        /\ last' = Answer("run_simulation", r.job, None, r.code)
    /\ UNCHANGED <<now, pc, loc, agent>>

NextJob(worker_id) ==
    /\ \E r \in agent_next_job(Store, worker_id, now) :
        /\ Install(r.S)
        /\ last' = Answer("next_job", r.job, worker_id, r.code)
    /\ UNCHANGED <<now, pc, loc, agent>>

\* the reports the model delivers: the statuses a worker posts, one the
\* table lets through from anywhere, one that re-queues, and one that is no status
ReportStatuses == {QUEUED, RUNNING, FINISHED, FAILED, STOPPED, UNKNOWN, "bogus"}
ReportExtras ==
    {[NoExtra EXCEPT !.worker_id = w] : w \in {Absent, "w1"}}

JobStatusReport(job_id, status, extra) ==
    /\ \E r \in {agent_update_status(Store, job_id, status, extra, now)} :
        /\ Install(r.S)
        /\ last' = Answer("job_status", job_id, None, r.code)
    /\ UNCHANGED <<now, pc, loc, agent>>

Heartbeat(worker_id) ==
    /\ \E r \in {record_host_heartbeat(Store, worker_id, now)} :
        /\ Install(r.S)
        /\ last' = Answer("heartbeat", None, None, IF r.ok THEN 200 ELSE 400)
    /\ UNCHANGED <<now, pc, loc, agent>>

Stop(job_id) ==
    /\ \E r \in {stop_job(Store, job_id, now)} :
        /\ Install(r.S)
        /\ last' = Answer("stop", job_id, None, r.code)
    /\ UNCHANGED <<now, pc, loc, agent>>

ListJobs ==
    /\ \E r \in {list_jobs(Store, now)} :
        /\ Install(r.S)
        /\ last' = Answer("list_jobs", None, None, r.code)
    /\ UNCHANGED <<now, pc, loc, agent>>

OpsRequeue(job_id, force, preferred_host, require_host) ==
    /\ \E r \in {ops_requeue_job(Store, job_id, force, preferred_host, require_host, now)} :
        /\ Install(r.S)
        /\ last' = Answer("ops_requeue", job_id, None, r.code)
    /\ UNCHANGED <<now, pc, loc, agent>>

OpsFail(job_id, force) ==
    /\ \E r \in {ops_fail_job(Store, job_id, force, now)} :
        /\ Install(r.S)
        /\ last' = Answer("ops_fail", job_id, None, r.code)
    /\ UNCHANGED <<now, pc, loc, agent>>

OpsCancel(job_id, force) ==
    /\ \E r \in {ops_cancel_job(Store, job_id, force, now)} :
        /\ Install(r.S)
        /\ last' = Answer("ops_cancel", job_id, None, r.code)
    /\ UNCHANGED <<now, pc, loc, agent>>

ClaimCrash(worker_id) ==
    /\ \E c \in PopChoices(Store, now) :
        /\ Len(c.order) > 0
        /\ Install(PopCrash(Store, worker_id, now, c.f, c.order))
        /\ last' = Answer("crash", c.order[1], None, 500)
    /\ UNCHANGED <<now, pc, loc, agent>>

\* The requests Spec delivers
PollWorkers == AVAILABLE_HOSTS
CrashWorkers == {"w2"}
SubmitHosts == {Absent, "", "w1"}
SubmitConfigs == {"ok", "traversal", "missing"}
RequeueHosts == {None, "w2", "ghost"}
RequeueFlags == {None, "false"}

Next ==
    \/ Tick
    \/ \E h \in SubmitHosts, cfg \in SubmitConfigs : Launch(h, cfg)
    \/ \E w \in PollWorkers : NextJob(w)
    \/ \E j \in JobIds, s \in ReportStatuses, e \in ReportExtras : JobStatusReport(j, s, e)
    \/ \E w \in {"w1", "ghost"} : Heartbeat(w)
    \/ \E j \in JobIds : Stop(j)
    \/ ListJobs
    \/ \E j \in JobIds, force \in BOOLEAN, h \in RequeueHosts, rq \in RequeueFlags :
          OpsRequeue(j, force, h, rq)
    \/ \E j \in JobIds, force \in BOOLEAN : OpsFail(j, force)
    \/ \E j \in JobIds, force \in BOOLEAN : OpsCancel(j, force)
    \/ \E w \in CrashWorkers : ClaimCrash(w)

Spec == Init /\ [][Next]_vars

----------------------------------------------------------------------------
(* SpecPop: agent_next_job calls that overlap. The agent endpoints are plain *)
(* def handlers, which the server runs on threads; each step below is one    *)
(* access to the cache or to the queue directory.                            *)

\* the overlapping calls, and the worker each polls for
Callers == {"p1", "p2"}
CallerWorker == [p \in Callers |-> IF p = "p1" THEN "w1" ELSE "w2"]

\* polls per caller, and jobs submitted before the polls
MaxCalls == 1
MaxQueued == 2

\* disk: the registry as load_jobs read it; files, i: the sorted listing and
\* the position of the loop in it; payload: what was read from the claim
\* file; meta: what jobs.get gave; calls: polls finished; popped, returned:
\* the jobs agent_pop_next_job and agent_next_job gave this caller
NoLocals ==
    [disk |-> EmptyStore.job_track, files |-> <<>>, i |-> 0, payload |-> NoFile,
     meta |-> NoJob, calls |-> 0, popped |-> {}, returned |-> {}]

InitPop ==
    /\ InitStore
    /\ pc = [p \in Callers |-> "idle"]
    /\ loc = [p \in Callers |-> NoLocals]
    /\ agent = [w \in {} |-> 0]

NoCallYet == \A p \in Callers : pc[p] = "idle" /\ loc[p].calls = 0

\* the jobs are submitted, and may age, before the polls start
PopSubmit(target_host) ==
    /\ NoCallYet
    /\ Cardinality(UsedIds(Store)) < MaxQueued
    /\ UsedIds(Store) # JobIds
    /\ \E r \in {launch_simulation(Store, target_host, "ok", now)} :
        /\ Install(r.S)
        /\ last' = Answer("run_simulation", r.job, None, r.code)
    /\ UNCHANGED <<now, pc, loc, agent>>

PopTick ==
    /\ NoCallYet
    /\ Tick

\* the answer of the call: the caller is idle again
PopReturn(p, job, code) ==
    /\ pc' = [pc EXCEPT ![p] = "idle"]
    /\ loc' = [loc EXCEPT ![p] = [NoLocals EXCEPT
                   !.calls = loc[p].calls + 1,
                   !.popped = loc[p].popped,
                   !.returned = loc[p].returned \cup (IF job = None THEN {} ELSE {job})]]
    /\ last' = Answer("next_job", job, CallerWorker[p], code)

\* _refresh_jobs: disk_jobs = load_jobs()
PopLoad(p) ==
    /\ pc[p] = "idle" /\ loc[p].calls < MaxCalls
    /\ pc' = [pc EXCEPT ![p] = "loaded"]
    /\ loc' = [loc EXCEPT ![p].disk = job_track]
    /\ UNCHANGED <<jobs, job_track, status_files, queue, claims, host_heartbeats, job_info,
                   now, last, agent>>

\* _refresh_jobs: jobs.clear()
PopClear(p) ==
    /\ pc[p] = "loaded"
    /\ pc' = [pc EXCEPT ![p] = "cleared"]
    /\ jobs' = [j \in JobIds |-> NoJob]
    /\ UNCHANGED <<job_track, status_files, queue, claims, host_heartbeats, job_info,
                   now, last, loc, agent>>

\* _refresh_jobs: jobs.update(disk_jobs)
PopUpdate(p) ==
    /\ pc[p] = "cleared"
    /\ pc' = [pc EXCEPT ![p] = "refreshed"]
    /\ jobs' = [j \in JobIds |-> IF loc[p].disk[j] # NoJob THEN loc[p].disk[j] ELSE jobs[j]]
    /\ UNCHANGED <<job_track, status_files, queue, claims, host_heartbeats, job_info,
                   now, last, loc, agent>>

\* _mark_stale_jobs()
PopReap(p) ==
    /\ pc[p] = "refreshed"
    /\ \E r \in {_mark_stale_jobs(Store, now)} :
        /\ Install(r.S)
        /\ IF r.ok THEN /\ pc' = [pc EXCEPT ![p] = "swept"]
                        /\ UNCHANGED <<loc, last>>
           ELSE PopReturn(p, None, 500)
    /\ UNCHANGED <<now, agent>>

\* agent_pop_next_job: _restore_stale_claims, then the sorted listing
PopList(p) ==
    /\ pc[p] = "swept"
    /\ \E c \in PopChoices(Store, now) :
        /\ Install(_restore_stale_claims(Store, now, c.f))
        /\ loc' = [loc EXCEPT ![p].files = c.order, ![p].i = 1]
    /\ pc' = [pc EXCEPT ![p] = "scan"]
    /\ UNCHANGED <<now, last, agent>>

\* the file the loop of agent_pop_next_job stands at
PopPath(p) == loc[p].files[loc[p].i]

PopContinue(p) ==
    /\ pc' = [pc EXCEPT ![p] = "scan"]
    /\ loc' = [loc EXCEPT ![p].i = loc[p].i + 1]

\* os.replace(path, claim_path); FileNotFoundError goes on to the next file,
\* the end of the listing returns None
PopRename(p) ==
    /\ pc[p] = "scan"
    /\ IF loc[p].i > Len(loc[p].files)
       THEN /\ PopReturn(p, None, 204)
            /\ UNCHANGED <<queue, claims>>
       ELSE /\ UNCHANGED last
            /\ IF queue[PopPath(p)] = NoFile
               THEN PopContinue(p) /\ UNCHANGED <<queue, claims>>
               ELSE /\ queue' = [queue EXCEPT ![PopPath(p)] = NoFile]
                    /\ claims' = [claims EXCEPT ![PopPath(p)][CallerWorker[p]] =
                                     ClaimOf(queue[PopPath(p)], now)]
                    /\ pc' = [pc EXCEPT ![p] = "renamed"]
                    /\ UNCHANGED loc
    /\ UNCHANGED <<jobs, job_track, status_files, host_heartbeats, job_info, now, agent>>

\* open(claim_path) and json.load; when the claim file is gone the except
\* branch finds nothing to put back and the loop goes on
PopRead(p) ==
    /\ pc[p] = "renamed"
    /\ LET c == claims[PopPath(p)][CallerWorker[p]] IN
       IF c = NoFile THEN PopContinue(p)
       ELSE /\ loc' = [loc EXCEPT ![p].payload = EntryOf(c)]
            /\ pc' = [pc EXCEPT ![p] =
                        IF HostMismatch(c, CallerWorker[p]) THEN "release" ELSE "remove"]
    /\ UNCHANGED <<jobs, job_track, status_files, queue, claims, host_heartbeats, job_info,
                   now, last, agent>>

\* os.replace(claim_path, path) of an entry meant for another host
PopRelease(p) ==
    /\ pc[p] = "release"
    /\ LET c == claims[PopPath(p)][CallerWorker[p]] IN
       IF c = NoFile THEN UNCHANGED <<queue, claims>>
       ELSE /\ queue' = [queue EXCEPT ![PopPath(p)] = EntryOf(c)]
            /\ claims' = [claims EXCEPT ![PopPath(p)][CallerWorker[p]] = NoFile]
    /\ PopContinue(p)
    /\ UNCHANGED <<jobs, job_track, status_files, host_heartbeats, job_info, now, last, agent>>

\* os.remove(claim_path) and return payload; when the claim file is gone the
\* loop goes on
PopRemove(p) ==
    /\ pc[p] = "remove"
    /\ LET c == claims[PopPath(p)][CallerWorker[p]] IN
       IF c = NoFile THEN PopContinue(p) /\ UNCHANGED claims
       ELSE /\ claims' = [claims EXCEPT ![PopPath(p)][CallerWorker[p]] = NoFile]
            /\ pc' = [pc EXCEPT ![p] = "popped"]
            /\ loc' = [loc EXCEPT ![p].popped = @ \cup {PopPath(p)}]
    /\ UNCHANGED <<jobs, job_track, status_files, queue, host_heartbeats, job_info,
                   now, last, agent>>

\* agent_next_job: meta = jobs.get(job_id), and the status check
PopGet(p) ==
    /\ pc[p] = "popped"
    /\ LET meta == jobs[PopPath(p)] IN
       IF meta = NoJob \/ StatusNow(Store, PopPath(p), meta) \notin {QUEUED, LAUNCHING}
       THEN PopReturn(p, None, 204)
       ELSE /\ pc' = [pc EXCEPT ![p] = "found"]
            /\ loc' = [loc EXCEPT ![p].meta = meta]
            /\ UNCHANGED last
    /\ UNCHANGED <<jobs, job_track, status_files, queue, claims, host_heartbeats, job_info,
                   now, agent>>

\* agent_next_job: the registry and the status file are set to DISPATCHED
PopDispatch(p) ==
    /\ pc[p] = "found"
    /\ \E r \in {DispatchWrite(Store, PopPath(p), loc[p].meta, CallerWorker[p], now)} :
          /\ Install(IF r.ok THEN DispatchInfo(r.S, PopPath(p), CallerWorker[p]) ELSE r.S)
          /\ IF r.ok THEN PopReturn(p, PopPath(p), 200) ELSE PopReturn(p, None, 500)
    /\ UNCHANGED <<now, agent>>

SubmitHostsPop == {"", "w1"}

NextPop ==
    \/ PopTick
    \/ \E h \in SubmitHostsPop : PopSubmit(h)
    \/ \E p \in Callers :
        \/ PopLoad(p)
        \/ PopClear(p)
        \/ PopUpdate(p)
        \/ PopReap(p)
        \/ PopList(p)
        \/ PopRename(p)
        \/ PopRead(p)
        \/ PopRelease(p)
        \/ PopRemove(p)
        \/ PopGet(p)
        \/ PopDispatch(p)

SpecPop == InitPop /\ [][NextPop]_vars

\* agent_next_job: meta["status"] = DISPATCHED, meta["target_host"] =
\* worker_id and _persist_job(job_id, meta)
PopPersist(p) ==
    /\ pc[p] = "found"
    /\ Install(_persist_job(Store, PopPath(p),
                  [loc[p].meta EXCEPT !.status = DISPATCHED,
                                      !.target_host = CallerWorker[p]]))
    /\ pc' = [pc EXCEPT ![p] = "persisted"]
    /\ UNCHANGED <<now, last, loc, agent>>

\* agent_next_job: _write_status(job_id, DISPATCHED), job_info.json, return
PopStatus(p) ==
    /\ pc[p] = "persisted"
    /\ \E r \in {_write_status(Store, PopPath(p), DISPATCHED,
                                [NoExtra EXCEPT !.worker_id = CallerWorker[p]], now)} :
          /\ Install(IF r.ok THEN DispatchInfo(r.S, PopPath(p), CallerWorker[p]) ELSE r.S)
          /\ IF r.ok THEN PopReturn(p, PopPath(p), 200) ELSE PopReturn(p, None, 500)
    /\ UNCHANGED <<now, agent>>

\* SpecOrder: the polls of one worker, the dispatch in its two writes
NextOrder ==
    \/ PopTick
    \/ \E h \in SubmitHostsPop : PopSubmit(h)
    \/ \E p \in {"p2"} :
        \/ PopLoad(p)
        \/ PopClear(p)
        \/ PopUpdate(p)
        \/ PopReap(p)
        \/ PopList(p)
        \/ PopRename(p)
        \/ PopRead(p)
        \/ PopRelease(p)
        \/ PopRemove(p)
        \/ PopGet(p)
        \/ PopPersist(p)
        \/ PopStatus(p)

SpecOrder == InitPop /\ [][NextOrder]_vars

\* C32: in every operation that changes a job's status the status file is
\* given the new status before the registry is: whenever the registry's
\* status of a job changes, the status file holds the new status already or
\* is given it in the same step.
C32_StatusFileBeforeRegistry ==
    [][ \A j \in JobIds :
          (/\ job_track'[j] # NoJob
           /\ job_track[j] = NoJob \/ job_track'[j].status # job_track[j].status)
          => \/ FileStatus(status_files, j) = job_track'[j].status
             \/ FileStatus(status_files', j) = job_track'[j].status ]_vars

\* a poll has saved DISPATCHED in the registry and the status file of the
\* job still says QUEUED
C32_RegistryAheadOfStatusFile ==
    \E p \in Callers :
        /\ pc[p] = "persisted"
        /\ job_track[PopPath(p)] # NoJob
        /\ job_track[PopPath(p)].status = DISPATCHED
        /\ FileStatus(status_files, PopPath(p)) = QUEUED

\* every caller is between calls
AllIdle == \A p \in Callers : pc[p] = "idle"

\* C1: over any interleaving of polls, no job_id is returned to two callers,
\* and a claimed entry is never lost: once the calls are over, the entry of
\* every submitted job was returned to a caller or is pending in the queue.
\* This holds for agent_pop_next_job and for agent_next_job.
C1_EveryEntryHandedOutOnce ==
    /\ \A p \in Callers : \A q \in Callers \ {p} :
          /\ loc[p].popped \cap loc[q].popped = {}
          /\ loc[p].returned \cap loc[q].returned = {}
    /\ AllIdle =>
          \A j \in UsedIds(Store) :
              /\ (\E p \in Callers : j \in loc[p].popped) \/ queue[j] # NoFile
              /\ (\E p \in Callers : j \in loc[p].returned) \/ queue[j] # NoFile

\* C1 at the queue level alone: what agent_pop_next_job returns
PopLevelHandedOutOnce ==
    /\ \A p \in Callers : \A q \in Callers \ {p} : loc[p].popped \cap loc[q].popped = {}
    /\ \A j \in UsedIds(Store), p \in Callers :
          j \in loc[p].popped => queue[j] = NoFile /\ claims[j] = EmptyStore.claims[j]
    /\ AllIdle =>
          \A j \in UsedIds(Store) :
              (\E p \in Callers : j \in loc[p].popped) \/ queue[j] # NoFile

\* C1 witness: a sweep restored a claim file that its claimer still held,
\* and the claimer found it gone.
C1_ClaimRestoredUnderClaimer ==
    \E p \in Callers :
        /\ pc[p] \in {"renamed", "remove", "release"}
        /\ claims[PopPath(p)][CallerWorker[p]] = NoFile
        /\ queue[PopPath(p)] # NoFile

----------------------------------------------------------------------------
(* SpecAgent: worker_agent.py against the coordinator. A POST is answered    *)
(* ("ok"), never arrives ("lost"), or is handled but its answer times out    *)
(* ("late"); requests raises on the last two and the agent passes.           *)

AgentWorkers == {"w1"}
Net == {"ok", "lost", "late"}
ExitCodes == {0, 1}

\* pc: where the agent stands; job: the payload it runs; exit_code: of the
\* container; ran: the job whose container exited last; acked: its terminal
\* status POST was answered 200; posted: the bodies of the status POSTs sent
\* for the job the worker took last; last_heartbeat: the global
\* _last_heartbeat, 0.0 at the start of the process; beat_at: when the worker
\* sent a heartbeat POST last (the process starts at time TickStep)
AgentIdle ==
    [pc |-> "loop", job |-> None, exit_code |-> NoCode, ran |-> None, acked |-> FALSE,
     posted |-> <<>>, last_heartbeat |-> 0, beat_at |-> TickStep]

\* OPEVA_HEARTBEAT_INTERVAL and POLL_INTERVAL, at their defaults
HEARTBEAT_INTERVAL == 30
POLL_INTERVAL == 5

\* the longest one pass of the loop of main takes when no job is run: the
\* timeouts of the heartbeat and next-job POSTs and the longer sleep
LoopStep == 5 + 10 + (IF POLL_INTERVAL * 2 < 30 THEN POLL_INTERVAL * 2 ELSE 30)

\* the body of a status POST: status and the other keys
Body(status, extra) == [status |-> status, extra |-> extra]

\* every exit code reported as a success
ExitStatus_finished(exit_code) == FINISHED

\* status = "finished" if exit_code == 0 else "failed"
ExitStatus(exit_code) == IF exit_code = 0 THEN FINISHED ELSE FAILED

\* the keys run_job puts beside job_id and status in its two POSTs
RunningBody(w) == [NoExtra EXCEPT !.worker_id = w, !.container_id = "c1"]
TerminalBody(w) == [NoExtra EXCEPT !.worker_id = w]

InitAgent ==
    /\ InitStore
    /\ pc = [p \in {} |-> 0]
    /\ loc = [p \in {} |-> 0]
    /\ agent = [w \in AgentWorkers |-> AgentIdle]

\* main: send_heartbeat(): nothing is sent unless HEARTBEAT_INTERVAL has
\* passed since _last_heartbeat, which only an answered POST moves
AgentHeartbeat(w, net) ==
    /\ agent[w].pc = "loop"
    /\ IF now - agent[w].last_heartbeat < HEARTBEAT_INTERVAL
       THEN /\ agent' = [agent EXCEPT ![w].pc = "poll"]
            /\ UNCHANGED <<jobs, job_track, status_files, queue, claims,
                           host_heartbeats, job_info, last>>
       ELSE /\ agent' = [agent EXCEPT
                            ![w].pc = "poll", ![w].beat_at = now,
                            ![w].last_heartbeat = IF net = "ok" THEN now ELSE @]
            /\ IF net = "lost"
               THEN UNCHANGED <<jobs, job_track, status_files, queue, claims,
                                host_heartbeats, job_info, last>>
               ELSE /\ Install(record_host_heartbeat(Store, w, now).S)
                    /\ last' = Answer("heartbeat", None, None, 200)
    /\ UNCHANGED <<now, pc, loc>>

\* main: POST next-job, and run_job on a 200
AgentPoll(w, net) ==
    /\ agent[w].pc = "poll"
    /\ IF net = "lost"
       THEN /\ agent' = [agent EXCEPT ![w].pc = "loop"]
            /\ UNCHANGED <<jobs, job_track, status_files, queue, claims,
                           host_heartbeats, job_info, last>>
       ELSE \E r \in agent_next_job(Store, w, now) :
            /\ Install(r.S)
            /\ last' = Answer("next_job", r.job, w, r.code)
            /\ agent' = IF net = "ok" /\ r.code = 200
                        THEN [agent EXCEPT ![w].pc = "start", ![w].job = r.job,
                                           ![w].posted = <<>>]
                        ELSE [agent EXCEPT ![w].pc = "loop"]
    /\ UNCHANGED <<now, pc, loc>>

\* a status POST of run_job: the code of the answer, NoCode when none came
Unanswered(r, net) == [S |-> r.S, code |-> IF net = "ok" THEN r.code ELSE NoCode]

AgentPost(w, status, extra, net) ==
    IF net = "lost" THEN [S |-> Store, code |-> NoCode]
    ELSE Unanswered(agent_update_status(Store, agent[w].job, status, extra, now), net)

\* run_job: the container runs, and status "running" is posted once
AgentPostRunning(w, net) ==
    /\ agent[w].pc = "start"
    /\ \E r \in {AgentPost(w, RUNNING, RunningBody(w), net)} :
        /\ Install(r.S)
        /\ last' = IF net = "lost" THEN last
                   ELSE Answer("job_status", agent[w].job, None, r.code)
    /\ agent' = [agent EXCEPT ![w].pc = "wait",
                              ![w].posted = Append(@, Body(RUNNING, RunningBody(w)))]
    /\ UNCHANGED <<now, pc, loc>>

\* run_job: container.wait() returns
AgentContainerExit(w, exit_code) ==
    /\ agent[w].pc = "wait"
    /\ agent' = [agent EXCEPT ![w].pc = "report", ![w].exit_code = exit_code,
                              ![w].ran = agent[w].job, ![w].acked = FALSE]
    /\ UNCHANGED <<jobs, job_track, status_files, queue, claims, host_heartbeats, job_info,
                   now, last, pc, loc>>

\* run_job: the terminal status is posted once, then the forced heartbeat,
\* and main polls again
AgentPostTerminal(w, net) ==
    /\ agent[w].pc = "report"
    /\ \E r \in {AgentPost(w, ExitStatus(agent[w].exit_code), TerminalBody(w), net)} :
          /\ Install(r.S)
          /\ last' = IF net = "lost" THEN last
                     ELSE Answer("job_status", agent[w].job, None, r.code)
          /\ agent' = [agent EXCEPT
                          ![w].pc = "beat", ![w].acked = (r.code = 200),
                          ![w].posted = Append(@, Body(ExitStatus(agent[w].exit_code),
                                                       TerminalBody(w)))]
    /\ UNCHANGED <<now, pc, loc>>

AgentForcedHeartbeat(w, net) ==
    /\ agent[w].pc = "beat"
    /\ agent' = [agent EXCEPT
                    ![w].pc = "loop", ![w].job = None, ![w].exit_code = NoCode,
                    ![w].beat_at = now,
                    ![w].last_heartbeat = IF net = "ok" THEN now ELSE @]
    /\ IF net = "lost" THEN UNCHANGED <<jobs, job_track, status_files, queue, claims,
                                        host_heartbeats, job_info, last>>
       ELSE /\ Install(record_host_heartbeat(Store, w, now).S)
            /\ last' = Answer("heartbeat", None, None, 200)
    /\ UNCHANGED <<now, pc, loc>>

NextAgent ==
    \/ Tick
    \/ \E h \in SubmitHosts : Launch(h, "ok")
    \/ \E j \in JobIds : OpsRequeue(j, TRUE, None, None)
    \/ \E w \in AgentWorkers, net \in Net : AgentHeartbeat(w, net)
    \/ \E w \in AgentWorkers, net \in Net : AgentPoll(w, net)
    \/ \E w \in AgentWorkers, net \in Net : AgentPostRunning(w, net)
    \/ \E w \in AgentWorkers, c \in ExitCodes : AgentContainerExit(w, c)
    \/ \E w \in AgentWorkers, net \in Net : AgentPostTerminal(w, net)
    \/ \E w \in AgentWorkers, net \in Net : AgentForcedHeartbeat(w, net)

SpecAgent == InitAgent /\ [][NextAgent]_vars

\* container.wait(): the container of the job runs for TickStep seconds
ContainerRuns(w) ==
    /\ agent[w].pc = "wait"
    /\ Tick

\* SpecBeat: the worker and the coordinator where time passes only while a
\* container runs; every other step of the worker takes no time
NextBeat ==
    \/ \E h \in SubmitHosts : Launch(h, "ok")
    \/ \E w \in AgentWorkers, net \in Net : AgentHeartbeat(w, net)
    \/ \E w \in AgentWorkers, net \in Net : AgentPoll(w, net)
    \/ \E w \in AgentWorkers, net \in Net : AgentPostRunning(w, net)
    \/ \E w \in AgentWorkers : ContainerRuns(w)
    \/ \E w \in AgentWorkers, c \in ExitCodes : AgentContainerExit(w, c)
    \/ \E w \in AgentWorkers, net \in Net : AgentPostTerminal(w, net)
    \/ \E w \in AgentWorkers, net \in Net : AgentForcedHeartbeat(w, net)

SpecBeat == InitAgent /\ [][NextBeat]_vars

\* C10: once a job's container has exited, the worker keeps posting the
\* terminal status until the coordinator acknowledges it: a worker that is
\* back in its polling loop has had the terminal status of the job it ran
\* acknowledged.
C10_TerminalStatusAcknowledged ==
    \A w \in AgentWorkers :
        (agent[w].pc = "loop" /\ agent[w].ran # None) => agent[w].acked

\* C10 witness: a worker posted the terminal status of its job, the
\* coordinator answered 200, and the worker polls again.
C10_TerminalStatusDelivered ==
    \E w \in AgentWorkers :
        /\ agent[w].pc = "loop" /\ agent[w].ran # None /\ agent[w].acked
        /\ FileStatus(status_files, agent[w].ran) \in {FINISHED, FAILED}

----------------------------------------------------------------------------
(* Claims checked under Spec *)

\* an ops call with force=true
ForcedOps ==
    \E j \in JobIds :
        \/ \E h \in RequeueHosts, rq \in RequeueFlags : OpsRequeue(j, TRUE, h, rq)
        \/ OpsFail(j, TRUE)
        \/ OpsCancel(j, TRUE)

\* C2: every change of a job's stored status made without force goes from
\* prev to next with can_transition(prev, next), and a job whose stored status
\* is FINISHED, FAILED, STOPPED or CANCELED never changes to another status
\* unless an ops call with force=true is used.
C2_UnforcedChangesAllowed ==
    [][ForcedOps \/
       \A j \in JobIds :
          LET prev == FileStatus(status_files, j)
              next == FileStatus(status_files', j)
          IN (prev # None /\ next # prev) =>
                (can_transition(prev, next) /\ prev \notin TerminalStatuses)]_vars

\* C3: after every completed operation, for every job in the registry the
\* registry's status equals the status in the job's status file.
C3_RegistryMatchesStatusFile ==
    \A j \in JobIds :
        job_track[j] # NoJob => job_track[j].status = FileStatus(status_files, j)

\* the items the queue directory holds for a job: the pending entry and the
\* claim files
QueueItems(j) ==
    (IF queue[j] # NoFile THEN {"entry"} ELSE {})
        \cup {w \in WorkerIds : claims[j][w] # NoFile}

\* C5: the queue directory never holds two items (pending entry or claim
\* file) for one job_id.
C5_AtMostOneQueueItem == \A j \in JobIds : Cardinality(QueueItems(j)) <= 1

\* C5 witness: the entry of a job was renamed to a claim file by a claimer
\* that died; the claim file is the job's one item.
C5_EntryBecameClaim ==
    /\ last.op = "crash"
    /\ \E j \in JobIds : QueueItems(j) = {"w2"}

\* an entry that is reserved for a host other than worker_id
ReservedForOther(entry, worker_id) ==
    /\ entry # NoFile
    /\ entry.require_host = TRUE
    /\ entry.preferred_host \in AVAILABLE_HOSTS
    /\ entry.preferred_host # worker_id

\* C4: if a queue entry has require_host=true and preferred_host=H, a poll by
\* any worker W different from H does not return that entry, and the entry
\* is still pending, unchanged, after the call.
C4_RequiredHostRespected ==
    \A w \in WorkerIds, j \in JobIds :
        ReservedForOther(queue[j], w) =>
            \A r \in agent_next_job(Store, w, now) :
                r.job # j /\ r.S.queue[j] = queue[j]

\* C4 witness: w2 polled and got nothing while the entry reserved for w1 is
\* still pending.
C4_OtherWorkerPolledReservedEntry ==
    /\ last.op = "next_job" /\ last.worker = "w2" /\ last.code = 204
    /\ \E j \in JobIds : ReservedForOther(queue[j], "w2")

\* the refresh and the sweep every agent request and every listing starts with
Swept(S, t) == _mark_stale_jobs(_refresh_jobs(S), t)

\* the last heartbeat of the host is older than HEARTBEAT_TTL + grace
SilentTooLong(w) ==
    /\ host_heartbeats[w] # NoTime
    /\ now - host_heartbeats[w] > HOST_HEARTBEAT_TTL + WORKER_STALE_GRACE_SECONDS

\* C6: once a worker's last heartbeat is older than HEARTBEAT_TTL +
\* WORKER_STALE_GRACE, a reaper sweep transitions every job assigned to it:
\* a DISPATCHED job is QUEUED again, with a queue entry and requeued_from set
\* to the worker, and a RUNNING or STOP_REQUESTED job is FAILED.
C6_SilentWorkerJobsReaped ==
    \A w \in AVAILABLE_HOSTS, j \in JobIds :
        (SilentTooLong(w) /\ job_track[j] # NoJob /\ job_track[j].target_host = w
            /\ job_track[j].status \in ActiveStatuses) =>
            LET r == Swept(Store, now)
                was == job_track[j].status
            IN /\ r.ok
               /\ was = DISPATCHED =>
                    /\ r.S.job_track[j].status = QUEUED
                    /\ FileStatus(r.S.status_files, j) = QUEUED
                    /\ r.S.queue[j] # NoFile
                    /\ r.S.status_files[j].requeued_from = w
               /\ was \in {RUNNING, STOP_REQUESTED} =>
                    /\ r.S.job_track[j].status = FAILED
                    /\ FileStatus(r.S.status_files, j) = FAILED

\* C6 witness: a listing swept a job whose status was fresh and whose worker
\* had been silent too long, and requeued it from that worker.
C6_RequeuedFromSilentWorker ==
    /\ last.op = "list_jobs"
    /\ \E j \in JobIds, w \in AVAILABLE_HOSTS :
        /\ SilentTooLong(w)
        /\ FileStatus(status_files, j) = QUEUED
        /\ status_files[j].requeued_from = w
        /\ status_files[j].stale_status = FALSE
        /\ status_files[j].status_updated_at = now
        /\ queue[j] # NoFile

\* C7: a claim file older than QUEUE_CLAIM_TTL is turned back into a pending
\* entry by the next poll of any worker, and a claim file younger than the
\* TTL is left alone. The age of a claim file is the time since the claim.
C7_ClaimRestoredOnlyAfterTTL ==
    \A j \in JobIds, cw \in WorkerIds :
        claims[j][cw] # NoFile =>
            \A w \in WorkerIds, c \in PopChoices(Store, now) :
                LET S1 == _restore_stale_claims(Store, now, c.f) IN
                IF (now - claims[j][cw].claimed_at) < QUEUE_CLAIM_TTL
                THEN S1.claims[j][cw] = claims[j][cw] /\ S1.queue[j] = queue[j]
                ELSE S1.claims[j][cw] = NoFile /\ S1.queue[j] = EntryOf(claims[j][cw])

\* what is stored about a job: status file, registry record, queue items
JobView(S, j) == <<S.status_files[j], S.job_track[j], S.queue[j], S.claims[j]>>

Rejections == {400, 404, 409}

\* C8 as stated: a rejected agent status report (400, 404 or 409) leaves the
\* job's status file, registry record and queue entry exactly as they were
\* before the report.
C8_RejectedReportChangesNothing ==
    \A j \in JobIds, s \in ReportStatuses, e \in ReportExtras :
        LET r == agent_update_status(Store, j, s, e, now) IN
        r.code \in Rejections => JobView(r.S, j) = JobView(Store, j)

\* C8 amended: a rejected agent status report leaves the job's status file,
\* registry record and queue entry exactly as the stale-job sweep at the
\* start of the call left them, and a report whose transition from the
\* status the sweep left is not allowed is rejected with 409.
C8_RejectedReportKeepsSweptState ==
    \A j \in JobIds, s \in ReportStatuses, e \in ReportExtras :
        LET sw == Swept(Store, now)
            r == agent_update_status(Store, j, s, e, now)
            prev == FileStatus(sw.S.status_files, j)
        IN /\ r.code \in Rejections =>
                sw.ok /\ \A k \in JobIds : JobView(r.S, k) = JobView(sw.S, k)
           /\ (sw.ok /\ s \in JobStatus /\ prev \in JobStatus /\ prev # s
                 /\ s \notin {NOT_FOUND, UNKNOWN} /\ s \notin ALLOWED_TRANSITIONS(prev))
                => r.code = 409

\* C8 witness: a report for a QUEUED job was refused with 409 and the job is
\* QUEUED with its entry pending.
C8_RefusedReportOnQueuedJob ==
    /\ last.op = "job_status" /\ last.code = 409
    /\ FileStatus(status_files, last.job) = QUEUED
    /\ job_track[last.job].status = QUEUED
    /\ queue[last.job] # NoFile

\* a stored record but for the time of the last status write
SameButTime(a, b) ==
    IF a \in {NoFile, NoJob} \/ b \in {NoFile, NoJob} THEN a = b
    ELSE [a EXCEPT !.status_updated_at = 0] = [b EXCEPT !.status_updated_at = 0]

SameJobState(S, T, j) ==
    /\ SameButTime(S.status_files[j], T.status_files[j])
    /\ SameButTime(S.job_track[j], T.job_track[j])
    /\ S.queue[j] = T.queue[j]
    /\ S.claims[j] = T.claims[j]

\* the instants of a second delivery: at once, or one clock step later
Redelivery == {now, now + TickStep}

\* C9 as stated: delivering again a status report that was accepted is
\* accepted and leaves the job's status, registry record and queue state as
\* after the first delivery, but for status_updated_at.
C9_RedeliveryIsIdempotent ==
    \A j \in JobIds, s \in ReportStatuses, e \in ReportExtras, t2 \in Redelivery :
        LET r1 == agent_update_status(Store, j, s, e, now) IN
        r1.code = 200 =>
            LET r2 == agent_update_status(r1.S, j, s, e, t2) IN
            r2.code = 200 /\ SameJobState(r2.S, r1.S, j)

\* C9 amended: delivering again an accepted status report is accepted and
\* leaves the job as after the first delivery, but for status_updated_at,
\* whenever the stale-job sweep at the start of the second call finds
\* nothing to requeue or fail for the job.
C9_RedeliveryAfterQuietSweep ==
    \A j \in JobIds, s \in ReportStatuses, e \in ReportExtras, t2 \in Redelivery :
        LET r1 == agent_update_status(Store, j, s, e, now) IN
        r1.code = 200 =>
            LET sw == Swept(r1.S, t2)
                r2 == agent_update_status(r1.S, j, s, e, t2)
            IN (sw.ok /\ JobView(sw.S, j) = JobView(r1.S, j)) =>
                    r2.code = 200 /\ SameJobState(r2.S, r1.S, j)

\* C9 witness: a RUNNING report was accepted, and a second delivery of it at
\* this instant is accepted too.
C9_AcceptedRunningReport ==
    /\ last.op = "job_status" /\ last.code = 200
    /\ FileStatus(status_files, last.job) = RUNNING
    /\ agent_update_status(Store, last.job, RUNNING,
                           [NoExtra EXCEPT !.worker_id = status_files[last.job].worker_id],
                           now).code = 200

----------------------------------------------------------------------------
(* The utility statuses and the transition table *)

StatusStrings == JobStatus \cup {"bogus"}

InitStatus ==
    /\ jobs = EmptyStore.jobs
    /\ job_track = EmptyStore.job_track
    /\ status_files = EmptyStore.status_files
    /\ queue = EmptyStore.queue
    /\ claims = EmptyStore.claims
    /\ host_heartbeats = EmptyStore.host_heartbeats
    /\ job_info = EmptyStore.job_info
    /\ now = TickStep
    /\ Idle
    /\ \E c \in StatusStrings, n \in StatusStrings :
        last = [op |-> "input", current |-> c, new |-> n, result |-> FALSE]

CanTransition ==
    /\ last.op = "input"
    /\ last' = [last EXCEPT !.op = "can_transition",
                            !.result = can_transition(last.current, last.new)]
    /\ UNCHANGED <<jobs, job_track, status_files, queue, claims, host_heartbeats,
                   job_info, now, pc, loc, agent>>

NextStatus == CanTransition

SpecStatus == InitStatus /\ [][NextStatus]_vars

DurableStatuses ==
    {LAUNCHING, QUEUED, DISPATCHED, RUNNING, STOP_REQUESTED,
     FINISHED, FAILED, STOPPED, CANCELED}

\* the allowed-transition table, pair by pair
TransitionTable ==
    {<<LAUNCHING, QUEUED>>, <<LAUNCHING, RUNNING>>, <<LAUNCHING, CANCELED>>,
     <<QUEUED, DISPATCHED>>, <<QUEUED, CANCELED>>,
     <<DISPATCHED, RUNNING>>, <<DISPATCHED, FAILED>>, <<DISPATCHED, CANCELED>>,
     <<DISPATCHED, STOP_REQUESTED>>, <<DISPATCHED, QUEUED>>,
     <<RUNNING, FINISHED>>, <<RUNNING, FAILED>>, <<RUNNING, STOP_REQUESTED>>,
     <<RUNNING, STOPPED>>, <<RUNNING, CANCELED>>,
     <<STOP_REQUESTED, STOPPED>>, <<STOP_REQUESTED, FAILED>>,
     <<STOP_REQUESTED, CANCELED>>}

\* C12: for every pair (prev, next) of the nine durable statuses,
\* can_transition(prev, next) is true exactly when the pair is in the
\* allowed-transition table, and nothing leaves a terminal status.
C12_CanTransitionIsTheTable ==
    (last.op = "can_transition" /\ last.current \in DurableStatuses
                                /\ last.new \in DurableStatuses)
        => (last.result <=> <<last.current, last.new>> \in TransitionTable)

\* the reaper's requeue edge has been asked for and allowed
C12_RequeueEdgeAllowed ==
    /\ last.op = "can_transition"
    /\ last.current = DISPATCHED /\ last.new = QUEUED
    /\ last.result

----------------------------------------------------------------------------
(* Submit *)

\* a job id is left to hand out
CanSubmit == Cardinality(UsedIds(Store)) < MaxJobs /\ UsedIds(Store) # JobIds

\* C13: a submit that names a configured target_host H succeeds with host H;
\* the queue then holds exactly one entry for the new job (and no claim
\* file), with preferred_host = H and require_host = true, and the registry
\* and the status file both record the job as QUEUED.
C13_NamedHostSubmitQueued ==
    \A H \in AVAILABLE_HOSTS :
        CanSubmit =>
            LET r == launch_simulation(Store, JobLaunchRequest(H), "ok", now)
                J == r.job
            IN /\ r.code = 200 /\ r.host = H
               /\ J \in JobIds \ UsedIds(Store)
               /\ r.S.queue[J] # NoFile
               /\ r.S.queue[J].preferred_host = H
               /\ r.S.queue[J].require_host = TRUE
               /\ \A w \in WorkerIds : r.S.claims[J][w] = NoFile
               /\ r.S.job_track[J] # NoJob /\ r.S.job_track[J].status = QUEUED
               /\ r.S.jobs[J] = r.S.job_track[J]
               /\ FileStatus(r.S.status_files, J) = QUEUED
               /\ \A k \in JobIds \ {J} : JobView(r.S, k) = JobView(Store, k)

\* the submit naming host w1 has just been answered
C13_SubmittedToNamedHost ==
    /\ last.op = "run_simulation" /\ last.code = 200
    /\ queue[last.job] # NoFile
    /\ queue[last.job].preferred_host = "w1"
    /\ queue[last.job].require_host
    /\ FileStatus(status_files, last.job) = QUEUED

\* values of settings.AVAILABLE_HOSTS with at least one host: a one-host
\* cluster, the cluster of this model, and one that has both kinds of name
HostSettings == {{"local"}, AVAILABLE_HOSTS, {"local", "w1"}}

\* C14: a submit that does not name a target_host is accepted whenever at
\* least one host is configured, whatever the host names are; it returns
\* host = null and enqueues an entry with preferred_host = null and
\* require_host = false (require_host is true only for a host named at
\* submit).
C14_UnnamedHostSubmitOpen ==
    \A hosts \in HostSettings :
        CanSubmit =>
            LET r == LaunchOn(hosts, Store, JobLaunchRequest(Absent), "ok", now)
            IN /\ r.code = 200
               /\ r.host = None
               /\ r.S.queue[r.job] # NoFile
               /\ r.S.queue[r.job].preferred_host = None
               /\ r.S.queue[r.job].require_host = FALSE

\* what a submit may carry as target_host
NamedHosts == SubmitHosts \cup {"w2", "local", "ghost"}

\* C15: a rejected submit (no hosts configured: 503; unknown target host:
\* 400; config_path that leaves the configs root: 400; neither config nor
\* config_path: 400) creates no job: the registry, the status store and the
\* queue are after the call what they were before it.
C15_RejectedSubmitCreatesNothing ==
    \A hosts \in HostSettings \cup {{}}, h \in NamedHosts, cfg \in SubmitConfigs :
        CanSubmit =>
            LET target_host == JobLaunchRequest(h)
                unknown == ~Falsy(target_host) /\ target_host \notin hosts
                r == LaunchOn(hosts, Store, target_host, cfg, now)
            IN /\ (hosts = {}) => r.code = 503
               /\ (hosts # {} /\ unknown) => r.code = 400
               /\ (hosts # {} /\ ~unknown /\ cfg # "ok") => r.code = 400
               /\ (hosts # {} /\ ~unknown /\ cfg = "ok") => r.code = 200
               /\ r.code # 200 =>
                    /\ r.job = None
                    /\ r.S.jobs = jobs /\ r.S.job_track = job_track
                    /\ r.S.status_files = status_files
                    /\ r.S.queue = queue /\ r.S.claims = claims
                    /\ r.S.job_info = job_info

\* a submit has just been refused with 400 and there is still no job
C15_SubmitRefused ==
    /\ last.op = "run_simulation" /\ last.code = 400 /\ last.job = None
    /\ UsedIds(Store) = {}
    /\ \A j \in JobIds : queue[j] = NoFile

----------------------------------------------------------------------------
(* Dispatch *)

\* job j is DISPATCHED in the status file, or in the registry, of S
DispatchedIn(S, j) ==
    \/ FileStatus(S.status_files, j) = DISPATCHED
    \/ S.job_track[j] # NoJob /\ S.job_track[j].status = DISPATCHED
    \/ S.jobs[j] # NoJob /\ S.jobs[j].status = DISPATCHED

\* C16: when agent_next_job(W) returns a dispatch payload for job J, J's
\* queue entry and claim files are gone, J's status file holds DISPATCHED
\* with worker_id = W, the registry holds DISPATCHED and target_host = W, and
\* job_info.json holds target_host = W; when it returns no payload, the call
\* has changed no job's status to DISPATCHED.
C16_DispatchRecordedEverywhere ==
    \A W \in PollWorkers : \A r \in agent_next_job(Store, W, now) :
        /\ r.code = 200 =>
            LET J == r.job IN
            /\ J \in JobIds
            /\ r.S.queue[J] = NoFile
            /\ \A w \in WorkerIds : r.S.claims[J][w] = NoFile
            /\ FileStatus(r.S.status_files, J) = DISPATCHED
            /\ r.S.status_files[J].worker_id = W
            /\ r.S.job_track[J].status = DISPATCHED
            /\ r.S.job_track[J].target_host = W
            /\ r.S.jobs[J] = r.S.job_track[J]
            /\ r.S.job_info[J] # NoFile
            /\ r.S.job_info[J].target_host = W
        /\ r.code # 200 =>
            /\ r.job = None
            /\ \A j \in JobIds : DispatchedIn(r.S, j) => DispatchedIn(Store, j)

\* a poll has just been answered with a payload; the job had been submitted
\* without a host, so that job_info.json named none before the dispatch
C16_PayloadReturned ==
    /\ last.op = "next_job" /\ last.code = 200
    /\ FileStatus(status_files, last.job) = DISPATCHED
    /\ status_files[last.job].worker_id = last.worker
    /\ job_track[last.job].preferred_host = None
    /\ job_info[last.job].target_host = last.worker

----------------------------------------------------------------------------
(* SpecStop: stop_job while workers poll. stop_job runs on the event loop,   *)
(* agent_next_job in the thread pool; each runs in the steps below, and a    *)
(* worker receives the payload some time after agent_next_job returned it.   *)

Stopper == "stop"
MaxStops == 1

\* job, status_now: the locals of stop_job; calls: stops finished; canceled:
\* the jobs a stop answered "Job canceled from queue" for
StopLocals == [job |-> None, status_now |-> None, calls |-> 0, canceled |-> {}]

InitStop ==
    /\ InitStore
    /\ pc = [p \in Callers \cup {Stopper} |-> "idle"]
    /\ loc = [p \in Callers \cup {Stopper} |->
                 IF p = Stopper THEN StopLocals ELSE NoLocals]
    /\ agent = [w \in {CallerWorker[p] : p \in Callers} |-> [received |-> {}]]

\* the answer of stop_job
StopReturn(job_id, code, target) ==
    /\ pc' = [pc EXCEPT ![Stopper] = "idle"]
    /\ loc' = [loc EXCEPT ![Stopper] =
                 [StopLocals EXCEPT
                     !.calls = loc[Stopper].calls + 1,
                     !.canceled = loc[Stopper].canceled \cup
                                     (IF target = CANCELED THEN {job_id} ELSE {})]]
    /\ last' = Answer("stop", job_id, None, code)

\* stop_job: _refresh_jobs(), jobs.get(job_id), and status_now
StopRead(job_id) ==
    /\ pc[Stopper] = "idle" /\ loc[Stopper].calls < MaxStops
    /\ Install(_refresh_jobs(Store))
    /\ LET job == job_track[job_id] IN
       IF job = NoJob THEN StopReturn(job_id, 404, None)
       ELSE /\ pc' = [pc EXCEPT ![Stopper] = "read"]
            /\ loc' = [loc EXCEPT ![Stopper].job = job_id,
                                  ![Stopper].status_now = StatusNow(Store, job_id, job)]
            /\ UNCHANGED last
    /\ UNCHANGED <<now, agent>>

\* stop_job: remove_from_queue, _write_status, _persist_job, return
StopWrite ==
    /\ pc[Stopper] = "read"
    /\ \E r \in {StopAfterRead(Store, loc[Stopper].job, loc[Stopper].status_now, now)} :
        /\ Install(r.S)
        /\ StopReturn(loc[Stopper].job, r.code, r.target)
    /\ UNCHANGED <<now, agent>>

\* the worker reads the answer of its poll: job = r.json()
Deliver(p) ==
    /\ \E j \in loc[p].returned \ agent[CallerWorker[p]].received :
        agent' = [agent EXCEPT ![CallerWorker[p]].received = @ \cup {j}]
    /\ UNCHANGED <<jobs, job_track, status_files, queue, claims, host_heartbeats,
                   job_info, now, last, pc, loc>>

NextStop ==
    \/ PopTick
    \/ \E h \in SubmitHostsPop : PopSubmit(h)
    \/ \E j \in JobIds : StopRead(j)
    \/ StopWrite
    \/ \E p \in Callers :
        \/ PopLoad(p)
        \/ PopClear(p)
        \/ PopUpdate(p)
        \/ PopReap(p)
        \/ PopList(p)
        \/ PopRename(p)
        \/ PopRead(p)
        \/ PopRelease(p)
        \/ PopRemove(p)
        \/ PopGet(p)
        \/ PopDispatch(p)
        \/ Deliver(p)

SpecStop == InitStop /\ [][NextStop]_vars

\* stop_job up to the guard of _write_status: the queue entry is removed,
\* prev is read from the status file and the transition is validated
StopCheck ==
    /\ pc[Stopper] = "read"
    /\ LET job_id == loc[Stopper].job
           target == StopTarget(loc[Stopper].status_now)
           S1 == remove_from_queue(Store, job_id)
       IN /\ Install(S1)
          /\ IF target = None THEN StopReturn(job_id, 200, None)
             ELSE IF TransitionRefused(_read_status_file(S1, job_id), target)
             THEN StopReturn(job_id, 500, None)
             ELSE /\ pc' = [pc EXCEPT ![Stopper] = "checked"]
                  /\ UNCHANGED <<loc, last>>
    /\ UNCHANGED <<now, agent>>

\* stop_job from the write of _write_status on: the status file, the cache
\* and the registry are written, and the call returns
StopPersist ==
    /\ pc[Stopper] = "checked"
    /\ LET job_id == loc[Stopper].job
           target == StopTarget(loc[Stopper].status_now)
           S1 == PersistStatus(Store, job_id, target, NoExtra, now)
       IN /\ Install(IF S1.jobs[job_id] = NoJob THEN S1
                     ELSE _persist_job(S1, job_id, [S1.jobs[job_id] EXCEPT !.status = target]))
          /\ StopReturn(job_id, 200, target)
    /\ UNCHANGED <<now, agent>>

\* SpecWrite: stop_job on the event loop, in the steps of its status write,
\* while the agent endpoints run, each in one step, in the thread pool
NextWrite ==
    \/ PopTick
    \/ \E h \in SubmitHostsPop : PopSubmit(h)
    \/ \E w \in PollWorkers : NextJob(w)
    \/ \E j \in JobIds :
          \/ JobStatusReport(j, RUNNING, [NoExtra EXCEPT !.worker_id = "w1"])
          \/ JobStatusReport(j, FINISHED, [NoExtra EXCEPT !.worker_id = "w1", !.exit_code = 0])
    \/ \E j \in JobIds : StopRead(j)
    \/ StopCheck
    \/ StopPersist

SpecWrite == InitStop /\ [][NextWrite]_vars

\* C31: status writes without force for one job are serialized: under any
\* interleaving of two writers no status the status file is given follows
\* one from which can_transition forbids it.
C31_NoForbiddenPairPersisted ==
    [][ \A j \in JobIds :
          (/\ FileStatus(status_files, j) # None
           /\ FileStatus(status_files', j) # None
           /\ FileStatus(status_files', j) # FileStatus(status_files, j))
          => can_transition(FileStatus(status_files, j), FileStatus(status_files', j)) ]_vars

\* a stop has written STOP_REQUESTED over the FINISHED that a worker's report
\* with exit code 0 had persisted
C31_StopWroteOverFinished ==
    \E j \in JobIds :
        /\ last = Answer("stop", j, None, 200)
        /\ FileStatus(status_files, j) = STOP_REQUESTED
        /\ job_track[j] # NoJob
        /\ job_track[j].status = STOP_REQUESTED
        /\ job_track[j].exit_code = 0

\* job j has been received by a worker
Received(ag, j) == \E w \in DOMAIN ag : j \in ag[w].received

\* C17: when stop(J) finds J LAUNCHING or QUEUED, then on its return J's
\* status is CANCELED and J has no queue entry, and from then on no worker
\* receives a dispatch payload for J, also when the stop runs while a worker
\* polls for the same entry.
C17_CanceledJobNeverHandedOut ==
    [][ /\ \A j \in loc'[Stopper].canceled \ loc[Stopper].canceled :
              /\ FileStatus(status_files', j) = CANCELED
              /\ queue'[j] = NoFile
        /\ \A j \in loc[Stopper].canceled :
              Received(agent', j) => Received(agent, j) ]_vars

\* a worker holds the payload of a job whose stop was answered "canceled"
C17_PayloadOfCanceledJob ==
    \E j \in loc[Stopper].canceled :
        /\ Received(agent, j)
        /\ FileStatus(status_files, j) = CANCELED

----------------------------------------------------------------------------
(* Stop, one call at a time *)

\* the status stop_job finds: the status file's, else the registry's
StatusBefore(j) ==
    IF FileStatus(status_files, j) # None THEN FileStatus(status_files, j)
    ELSE job_track[j].status

----------------------------------------------------------------------------
(* SpecUnknownWorker: the agent endpoints called with a worker_id that is    *)
(* not in settings.AVAILABLE_HOSTS, beside the calls of configured workers   *)

UnknownWorkers == WorkerIds \ AVAILABLE_HOSTS
WorkerStatuses == {QUEUED, RUNNING, FINISHED, "bogus"}
WorkerExtras ==
    {[NoExtra EXCEPT !.worker_id = w] : w \in {Absent, "w1"} \cup UnknownWorkers}

NextUnknownWorker ==
    \/ Tick
    \/ \E h \in SubmitHostsPop : Launch(h, "ok")
    \/ \E w \in WorkerIds : NextJob(w)
    \/ \E j \in JobIds, s \in WorkerStatuses, e \in WorkerExtras : JobStatusReport(j, s, e)
    \/ \E w \in WorkerIds : Heartbeat(w)

SpecUnknownWorker == Init /\ [][NextUnknownWorker]_vars

\* C19 as stated: a request of an unknown worker is rejected and changes
\* nothing: its heartbeat returns 400 and leaves the heartbeat table
\* unchanged, and its status report is rejected and leaves the job's status,
\* registry record and target_host unchanged.
C19_UnknownWorkerRejected ==
    \A g \in UnknownWorkers :
        /\ LET h == record_host_heartbeat(Store, g, now)
           IN ~h.ok /\ h.S.host_heartbeats = host_heartbeats
        /\ \A j \in JobIds, s \in WorkerStatuses :
             _job_exists(Store, j) =>
                LET r == agent_update_status(Store, j, s,
                                             [NoExtra EXCEPT !.worker_id = g], now)
                IN /\ r.code \in Rejections
                   /\ r.S.status_files[j] = status_files[j]
                   /\ r.S.job_track[j] = job_track[j]

\* C19, amended: a heartbeat from an unknown worker returns 400 and leaves
\* the heartbeat table unchanged. A status report that names an unknown
\* worker is answered as the same report that names no worker is, and never
\* touches the heartbeat table; when it is accepted the status file holds the
\* reported status and worker_id, and the registry record's target_host is
\* the unknown worker.
C19_UnknownWorkerReportHandled ==
    \A g \in UnknownWorkers :
        /\ LET h == record_host_heartbeat(Store, g, now)
           IN ~h.ok /\ h.S = Store
        /\ \A j \in JobIds, s \in WorkerStatuses :
             LET r == agent_update_status(Store, j, s,
                                          [NoExtra EXCEPT !.worker_id = g], now)
                 plain == agent_update_status(Store, j, s, NoExtra, now)
             IN /\ r.code = plain.code
                /\ r.S.host_heartbeats = host_heartbeats
                /\ DOMAIN r.S.host_heartbeats = AVAILABLE_HOSTS
                /\ r.code # 200 => r.S = plain.S
                /\ r.code = 200 =>
                     /\ FileStatus(r.S.status_files, j) = s
                     /\ r.S.status_files[j].worker_id = g
                     /\ r.S.job_track[j].status = s
                     /\ r.S.job_track[j].target_host = g
                     /\ r.S.queue = plain.S.queue /\ r.S.claims = plain.S.claims

\* a report that names an unknown worker has just been accepted for a job
\* that was dispatched to a configured worker
C19_UnknownWorkerReportAccepted ==
    /\ last.op = "job_status" /\ last.code = 200
    /\ FileStatus(status_files, last.job) = RUNNING
    /\ status_files[last.job].worker_id \in UnknownWorkers
    /\ job_track[last.job].target_host \in UnknownWorkers
    /\ job_info[last.job].target_host \in AVAILABLE_HOSTS

----------------------------------------------------------------------------
(* Ops calls without force *)

\* C20: without force, ops requeue is refused with 409 for a job that is
\* terminal, RUNNING or STOP_REQUESTED (400 comes first when the call names
\* an unknown preferred_host), ops fail for a job that is terminal, QUEUED
\* or LAUNCHING, and ops cancel for a terminal job; a refused call leaves the
\* job's status file, registry record and queue entry unchanged.
C20_UnforcedOpsRefused ==
    \A j \in JobIds :
        job_track[j] # NoJob =>
            /\ StatusBefore(j) \in TerminalStatuses \cup {RUNNING, STOP_REQUESTED} =>
                 \A h \in RequeueHosts, rq \in RequeueFlags :
                    LET r == ops_requeue_job(Store, j, FALSE, h, rq, now)
                    IN /\ r.code = IF Falsy(h) \/ h \in AVAILABLE_HOSTS THEN 409 ELSE 400
                       /\ \A k \in JobIds : JobView(r.S, k) = JobView(Store, k)
            /\ StatusBefore(j) \in TerminalStatuses \cup {QUEUED, LAUNCHING} =>
                 LET r == ops_fail_job(Store, j, FALSE, now)
                 IN /\ r.code = 409
                    /\ \A k \in JobIds : JobView(r.S, k) = JobView(Store, k)
            /\ StatusBefore(j) \in TerminalStatuses =>
                 LET r == ops_cancel_job(Store, j, FALSE, now)
                 IN /\ r.code = 409
                    /\ \A k \in JobIds : JobView(r.S, k) = JobView(Store, k)

\* an ops fail without force has just been refused for a queued job, whose
\* entry is still in the queue
C20_FailOfQueuedJobRefused ==
    /\ last.op = "ops_fail" /\ last.code = 409
    /\ FileStatus(status_files, last.job) = QUEUED
    /\ job_track[last.job].status = QUEUED
    /\ queue[last.job] # NoFile

----------------------------------------------------------------------------
(* Ops calls with force *)

\* status file and registry record of job j in S hold status st, stamped t
HoldsStatus(S, j, st, t) ==
    /\ FileStatus(S.status_files, j) = st
    /\ S.status_files[j].status_updated_at = t
    /\ S.job_track[j] # NoJob
    /\ S.job_track[j].status = st
    /\ S.job_track[j].status_updated_at = t
    /\ S.jobs[j] = S.job_track[j]

\* the claim files the queue directory of S holds for job j
ClaimFiles(S, j) == {w \in WorkerIds : S.claims[j][w] # NoFile}

\* C21: with force = true, ops requeue, fail and cancel succeed from every
\* stored status, terminal ones included: afterwards the status file and the
\* registry both hold QUEUED, FAILED or CANCELED with status_updated_at
\* set to the time of the call; a forced requeue leaves exactly one pending
\* queue entry for the job (and no claim file), a forced fail or cancel none.
C21_ForcedOpsSucceed ==
    \A j \in JobIds :
        job_track[j] # NoJob =>
            /\ \A h \in {None} \cup AVAILABLE_HOSTS, rq \in RequeueFlags :
                 LET r == ops_requeue_job(Store, j, TRUE, h, rq, now)
                 IN /\ r.code = 200
                    /\ HoldsStatus(r.S, j, QUEUED, now)
                    /\ r.S.queue[j] # NoFile
                    /\ ClaimFiles(r.S, j) = {}
            /\ LET r == ops_fail_job(Store, j, TRUE, now)
               IN /\ r.code = 200
                  /\ HoldsStatus(r.S, j, FAILED, now)
                  /\ r.S.queue[j] = NoFile
                  /\ ClaimFiles(r.S, j) = {}
            /\ LET r == ops_cancel_job(Store, j, TRUE, now)
               IN /\ r.code = 200
                  /\ HoldsStatus(r.S, j, CANCELED, now)
                  /\ r.S.queue[j] = NoFile
                  /\ ClaimFiles(r.S, j) = {}

\* a forced requeue has just put a job back in the queue at a later time
\* than its first submit
C21_ForcedRequeueDone ==
    /\ last.op = "ops_requeue" /\ last.code = 200
    /\ FileStatus(status_files, last.job) = QUEUED
    /\ status_files[last.job].status_updated_at = now
    /\ queue[last.job] # NoFile
    /\ queue[last.job].mtime = now
    /\ now > TickStep

----------------------------------------------------------------------------
(* SpecAdmin: delete and the queue cleanup, over two jobs that workers take  *)
(* and report on                                                             *)

DeleteJob(job_id) ==
    /\ \E r \in {delete_job(Store, job_id, now)} :
        /\ Install(r.S)
        /\ last' = Answer("delete_job", job_id, None, r.code)
    /\ UNCHANGED <<now, pc, loc, agent>>

\* POST /ops/queue/cleanup: ops_controller.cleanup_queue()
CleanupQueue ==
    /\ \E r \in {cleanup_queue(Store, FALSE)} :
        /\ Install(r.S)
        /\ last' = Answer("cleanup_queue", None, None, r.code)
    /\ UNCHANGED <<now, pc, loc, agent>>

NextAdmin ==
    \/ PopTick
    \/ \E h \in SubmitHostsPop : PopSubmit(h)
    \/ \E w \in PollWorkers : NextJob(w)
    \/ \E j \in JobIds, s \in {RUNNING, FINISHED} :
          JobStatusReport(j, s, [NoExtra EXCEPT !.worker_id = "w1"])
    \/ \E j \in JobIds : DeleteJob(j)
    \/ CleanupQueue
    \/ \E w \in CrashWorkers : ClaimCrash(w)

SpecAdmin == InitPop /\ [][NextAdmin]_vars

\* the entry of job j is pending and its job is missing from the registry
\* or is not QUEUED or LAUNCHING
StaleEntry(j) ==
    /\ queue[j] # NoFile
    /\ \/ job_track[j] = NoJob
       \/ StatusBefore(j) \notin {QUEUED, LAUNCHING}

\* C22: the ops queue cleanup succeeds and deletes exactly the pending
\* entries whose job is missing from the registry or is not QUEUED or
\* LAUNCHING; every other entry is still in the queue afterwards, and no
\* job's status is changed.
C22_CleanupDeletesStaleEntries ==
    LET r == cleanup_queue(Store, FALSE)
    IN /\ r.code = 200
       /\ \A j \in JobIds :
            /\ r.S.queue[j] = IF StaleEntry(j) THEN NoFile ELSE queue[j]
            /\ r.S.status_files[j] = status_files[j]
            /\ r.S.job_track[j] = job_track[j]

\* the cleanup has just failed while the entry of a deleted job is pending
C22_CleanupFailedOverStaleEntry ==
    /\ last.op = "cleanup_queue" /\ last.code = 500
    /\ \E j \in JobIds : queue[j] # NoFile /\ job_track[j] = NoJob

\* C23 as stated: delete(J) of an existing job, whatever its status, removes
\* J's job directory with its status file, J's registry record and its cache
\* entry, and leaves every other job's registry record and files untouched;
\* delete of an unknown job returns 404 and changes nothing.
C23_DeleteTouchesOnlyItsJob ==
    \A j \in JobIds :
        LET r == delete_job(Store, j, now) IN
        IF job_track[j] # NoJob
        THEN /\ r.code = 200
             /\ r.S.status_files[j] = NoFile /\ r.S.job_info[j] = NoFile
             /\ r.S.job_track[j] = NoJob /\ r.S.jobs[j] = NoJob
             /\ \A k \in JobIds \ {j} :
                  /\ JobView(r.S, k) = JobView(Store, k)
                  /\ r.S.job_info[k] = job_info[k]
        ELSE /\ r.code = 404
             /\ \A k \in JobIds :
                  /\ JobView(r.S, k) = JobView(Store, k)
                  /\ r.S.job_info[k] = job_info[k]

\* C23, amended: delete_job first runs the stale-job sweep, which may requeue
\* or fail other jobs. When the sweep raises nothing, delete(J) of a job in
\* the registry, whatever its status, answers 200 and removes J's status
\* file, job_info.json, registry record and cache entry, and leaves J's queue
\* entry and every other job's records and files as the sweep left them;
\* delete of a job that is not in the registry answers 404 and leaves
\* everything as the sweep left it.
C23_DeleteKeepsSweptState ==
    \A j \in JobIds :
        LET sw == Swept(Store, now)
            r == delete_job(Store, j, now)
        IN sw.ok =>
            IF job_track[j] # NoJob
            THEN /\ r.code = 200
                 /\ r.S.status_files[j] = NoFile /\ r.S.job_info[j] = NoFile
                 /\ r.S.job_track[j] = NoJob /\ r.S.jobs[j] = NoJob
                 /\ r.S.queue[j] = sw.S.queue[j] /\ r.S.claims[j] = sw.S.claims[j]
                 /\ \A k \in JobIds \ {j} :
                      /\ JobView(r.S, k) = JobView(sw.S, k)
                      /\ r.S.job_info[k] = sw.S.job_info[k]
                      /\ r.S.jobs[k] = sw.S.jobs[k]
            ELSE /\ r.code = 404
                 /\ r.S = sw.S

\* a delete has just removed a job that was not terminal, and the other job
\* is still there
C23_DeletedUnfinishedJob ==
    /\ last.op = "delete_job" /\ last.code = 200
    /\ job_track[last.job] = NoJob /\ status_files[last.job] = NoFile
    /\ queue[last.job] # NoFile
    /\ \E k \in JobIds \ {last.job} : job_track[k] # NoJob /\ status_files[k] # NoFile

----------------------------------------------------------------------------
(* The worker's status reports (SpecAgent) *)

\* C24: for every job a worker runs, it posts RUNNING, with the container_id,
\* before any terminal status, and the one terminal status it posts after
\* the container exits is FINISHED if and only if the exit code is 0, and
\* FAILED otherwise.
C24_RunningThenOneTerminal ==
    \A w \in AgentWorkers :
        LET p == agent[w].posted IN
        /\ Len(p) <= 2
        /\ agent[w].pc = "start" => p = <<>>
        /\ agent[w].pc \in {"wait", "report"} => Len(p) = 1
        /\ Len(p) >= 1 =>
             /\ p[1].status = RUNNING
             /\ p[1].extra.container_id # Absent
             /\ p[1].extra.worker_id = w
        /\ agent[w].pc = "beat" =>
             /\ Len(p) = 2
             /\ p[2].status \in {FINISHED, FAILED}
             /\ p[2].status = FINISHED <=> agent[w].exit_code = 0
        /\ Len(p) = 2 => p[2].status \in {FINISHED, FAILED}

\* a container has exited with a code that is not 0 and the worker has
\* posted "failed" after "running"
C24_FailedPostedAfterRunning ==
    \E w \in AgentWorkers :
        /\ agent[w].pc = "beat" /\ agent[w].exit_code = 1
        /\ Len(agent[w].posted) = 2
        /\ agent[w].posted[1].status = RUNNING
        /\ agent[w].posted[2].status = FAILED

\* C25: the terminal status report of a worker carries the exit code of the
\* container: once the server has accepted the report, the status file and
\* the registry record of the job hold that exit code.
C25_ExitCodeRecorded ==
    \A w \in AgentWorkers :
        (agent[w].pc = "beat" /\ agent[w].acked) =>
            /\ agent[w].posted[2].extra.exit_code = agent[w].exit_code
            /\ status_files[agent[w].job].exit_code = agent[w].exit_code
            /\ job_track[agent[w].job].exit_code = agent[w].exit_code

\* the server has accepted the terminal report of a container that exited
\* with code 1, and neither record of the job holds an exit code
C25_AcceptedReportWithoutExitCode ==
    \E w \in AgentWorkers :
        /\ agent[w].pc = "beat" /\ agent[w].acked /\ agent[w].exit_code = 1
        /\ status_files[agent[w].job] # NoFile
        /\ status_files[agent[w].job].status = FAILED
        /\ status_files[agent[w].job].exit_code = NoCode
        /\ job_track[agent[w].job].exit_code = NoCode

\* C26: a live worker sends a heartbeat at least once every
\* HEARTBEAT_INTERVAL: the time since the heartbeat it sent last never
\* exceeds HEARTBEAT_INTERVAL plus one loop step, also while it waits for the
\* container of a job to exit.
C26_HeartbeatEveryInterval ==
    \A w \in AgentWorkers : now - agent[w].beat_at <= HEARTBEAT_INTERVAL + LoopStep

\* a worker waits for a running container and has sent no heartbeat for more
\* than HEARTBEAT_INTERVAL plus one loop step
C26_SilentWhileContainerRuns ==
    \E w \in AgentWorkers :
        /\ agent[w].pc = "wait"
        /\ now - agent[w].beat_at > HEARTBEAT_INTERVAL + LoopStep
        /\ jobs[agent[w].job] # NoJob
        /\ jobs[agent[w].job].status = RUNNING

----------------------------------------------------------------------------
(* Containers and hosts of jobs *)

\* in S no job that waits (QUEUED, LAUNCHING) has a container_id on record
NoContainerWhileWaiting(S) ==
    \A j \in JobIds :
        /\ (S.job_track[j] # NoJob /\ S.job_track[j].status \in {QUEUED, LAUNCHING})
              => S.job_track[j].container_id = Absent
        /\ FileStatus(S.status_files, j) \in {QUEUED, LAUNCHING}
              => S.status_files[j].container_id = Absent

\* in S every job that is DISPATCHED, RUNNING or STOP_REQUESTED has a host
HostWhileActive(S) ==
    \A j \in JobIds :
        (S.job_track[j] # NoJob /\ S.job_track[j].status \in ActiveStatuses)
            => ~Falsy(S.job_track[j].target_host)

\* C27: in every reachable state, forced ops included, a job that is QUEUED
\* or LAUNCHING has no container_id on record, and a job that is DISPATCHED,
\* RUNNING or STOP_REQUESTED has a target_host that is not empty.
C27_WaitingJobsHaveNoContainer ==
    NoContainerWhileWaiting(Store) /\ HostWhileActive(Store)

\* a job whose container was reported is QUEUED again, with a pending queue
\* entry, and its registry record still names the container
C27_RequeuedJobKeepsContainer ==
    \E j \in JobIds :
        /\ job_track[j] # NoJob
        /\ job_track[j].status = QUEUED
        /\ FileStatus(status_files, j) = QUEUED
        /\ queue[j] # NoFile
        /\ job_track[j].container_id = "c1"

----------------------------------------------------------------------------
(* The outcome of the reaper *)

\* the registry record of job j in S is in one of the statuses, and the
\* reaper at time t finds its status stale or its host silent too long
ReaperActsOn(S, j, statuses, t) ==
    /\ S.jobs[j] # NoJob
    /\ S.jobs[j].status \in statuses
    /\ \/ StatusStale(S, j, t)
       \/ HostOffline(S, S.jobs[j].target_host, t)

\* C28: when the reaper acts on a job, whose status is stale or whose host
\* is silent too long, the job's status fixes the outcome: a DISPATCHED job
\* is put back in the queue and is QUEUED, never FAILED; a RUNNING or
\* STOP_REQUESTED job is FAILED, with error stale_status or worker_offline,
\* and never requeued; after the sweep the registry and the status file
\* agree on the new status.
C28_ReaperOutcomeByStatus ==
    \A j \in JobIds :
        LET S0 == _refresh_jobs(Store)
            r == _mark_stale_jobs(S0, now)
        IN /\ ReaperActsOn(S0, j, {DISPATCHED}, now) =>
                /\ r.ok
                /\ r.S.queue[j] # NoFile
                /\ r.S.job_track[j].status = QUEUED
                /\ r.S.jobs[j].status = QUEUED
                /\ FileStatus(r.S.status_files, j) = QUEUED
           /\ ReaperActsOn(S0, j, {RUNNING, STOP_REQUESTED}, now) =>
                /\ r.ok
                /\ r.S.queue[j] = S0.queue[j]
                /\ r.S.job_track[j].status = FAILED
                /\ r.S.jobs[j].status = FAILED
                /\ FileStatus(r.S.status_files, j) = FAILED
                /\ r.S.status_files[j].error =
                      IF StatusStale(S0, j, now) THEN "stale_status" ELSE "worker_offline"

\* the reaper has failed a job that was RUNNING or STOP_REQUESTED: status
\* file and registry hold FAILED with the reaper's error, and no queue entry
C28_ReaperFailedJob ==
    \E j \in JobIds :
        /\ FileStatus(status_files, j) = FAILED
        /\ status_files[j].error \in {"stale_status", "worker_offline"}
        /\ job_track[j] # NoJob
        /\ job_track[j].status = FAILED
        /\ queue[j] = NoFile

\* C29: when the reaper requeues a DISPATCHED job, the new queue entry and
\* the registry record carry the host preference the job was submitted with,
\* which is the one on record before the sweep (dispatch and status reports
\* leave preferred_host and require_host alone): a job submitted with no
\* preferred host is requeued with preferred_host = None, not with the host
\* it had been dispatched to.
C29_RequeueKeepsHostPreference ==
    \A j \in JobIds :
        LET S0 == _refresh_jobs(Store)
            r == _mark_stale_jobs(S0, now)
        IN (ReaperActsOn(S0, j, {DISPATCHED}, now) /\ r.ok) =>
              /\ r.S.queue[j] # NoFile
              /\ r.S.queue[j].preferred_host = S0.jobs[j].preferred_host
              /\ r.S.queue[j].require_host = S0.jobs[j].require_host
              /\ r.S.job_track[j].preferred_host = S0.jobs[j].preferred_host
              /\ r.S.job_track[j].require_host = S0.jobs[j].require_host

\* a job submitted with no host (require_host is false) was dispatched to w1
\* and requeued by the reaper: its queue entry and its registry record now
\* prefer w1
C29_RequeuedWithDispatchHost ==
    \E j \in JobIds :
        /\ FileStatus(status_files, j) = QUEUED
        /\ status_files[j].requeued_from = "w1"
        /\ queue[j] # NoFile
        /\ queue[j].preferred_host = "w1"
        /\ ~queue[j].require_host
        /\ job_track[j] # NoJob
        /\ job_track[j].preferred_host = "w1"
        /\ ~job_track[j].require_host

----------------------------------------------------------------------------
(* The order of claims *)

\* the pending entries of S that worker w may take
MayTake(S, w) == {j \in Pending(S) : ~HostMismatch(S.queue[j], w)}

\* C30: claims are FIFO by mtime. A pop by worker w returns, among the
\* pending entries w may take, one with the earliest mtime, whatever older
\* entries are reserved for other hosts; the entries it skips stay as they
\* were; an entry restored from a stale claim has the mtime of the claim
\* file, and a claim file has the mtime of the entry it was renamed from.
C30_ClaimsAreFifo ==
    LET sw == Swept(Store, now) IN
    /\ sw.ok =>
         \A w \in PollWorkers : \A c \in PopChoices(sw.S, now) :
            LET R == _restore_stale_claims(sw.S, now, c.f)
                p == agent_pop_next_job(sw.S, w, now, c.f, c.order)
            IN /\ MayTake(R, w) = {} => p.job = None
               /\ MayTake(R, w) # {} =>
                    /\ p.job \in MayTake(R, w)
                    /\ \A k \in MayTake(R, w) : R.queue[p.job].mtime <= R.queue[k].mtime
               /\ \A j \in Pending(R) \ {p.job} : p.S.queue[j] = R.queue[j]
               /\ \A j \in JobIds :
                    c.f[j] # None =>
                        /\ R.queue[j] # NoFile
                        /\ R.queue[j].mtime = sw.S.claims[j][c.f[j]].mtime
    /\ \A w \in CrashWorkers : \A c \in PopChoices(Store, now) :
          Len(c.order) > 0 =>
             LET R == _restore_stale_claims(Store, now, c.f)
                 j == c.order[1]
             IN PopCrash(Store, w, now, c.f, c.order).claims[j][w].mtime = R.queue[j].mtime

\* worker w2 was handed job j2 while the entry of job j1, enqueued no later
\* and reserved for w1, stays pending
C30_YoungerEntryTaken ==
    /\ last = Answer("next_job", "j2", "w2", 200)
    /\ queue["j1"] # NoFile
    /\ HostMismatch(queue["j1"], "w2")
    /\ queue["j2"] = NoFile
    /\ job_track["j2"] # NoJob
    /\ job_track["j2"].status = DISPATCHED
    /\ queue["j1"].mtime < job_track["j2"].status_updated_at

----------------------------------------------------------------------------
(* SpecTrack: save_job and delete_job_by_id of two requests on the registry  *)
(* file, each in its steps: the lock is taken and the file read, then the    *)
(* file is replaced and the lock released. Caller p1 writes job j1, caller   *)
(* p2 job j2.                                                                *)

TrackJob == [p \in Callers |-> IF p = "p1" THEN "j1" ELSE "j2"]

\* op: "save" or "delete"; meta: the record save_job was given, NoJob for a
\* delete; copy: what _read_job_track_unlocked returned; calls: calls done
TrackLocals ==
    [op |-> None, meta |-> NoJob, copy |-> EmptyStore.job_track, calls |-> 0]

InitTrack ==
    /\ InitStore
    /\ pc = [p \in Callers |-> "idle"]
    /\ loc = [p \in Callers |-> TrackLocals]
    /\ agent = [w \in {} |-> 0]

\* a caller that never waits for the lock
LockFree_unlocked(pcs, p) == TRUE

\* fcntl.flock(lock_file, LOCK_EX) returns for p: no other caller is between
\* its flock and its LOCK_UN
LockFree(pcs, p) == \A q \in DOMAIN pcs : q # p => pcs[q] # "locked"

\* the record a save_job of the model writes for a job
TrackMetas(j) ==
    IF job_track[j] = NoJob THEN {NewMeta(None)}
    ELSE {[job_track[j] EXCEPT !.status = s] : s \in {DISPATCHED, FAILED}}

\* save_job, delete_job_by_id: (rmtree of the job directory,) the lock is
\* taken and the registry file read
TrackRead(p, op) ==
    /\ pc[p] = "idle" /\ loc[p].calls < MaxCalls
    /\ LockFree(pc, p)
    /\ pc' = [pc EXCEPT ![p] = "locked"]
    /\ \E m \in (IF op = "save" THEN TrackMetas(TrackJob[p]) ELSE {NoJob}) :
          loc' = [loc EXCEPT ![p] = [op |-> op, meta |-> m, copy |-> job_track,
                                     calls |-> loc[p].calls]]
    /\ IF op = "delete"
       THEN /\ status_files' = [status_files EXCEPT ![TrackJob[p]] = NoFile]
            /\ job_info' = [job_info EXCEPT ![TrackJob[p]] = NoFile]
       ELSE UNCHANGED <<status_files, job_info>>
    /\ UNCHANGED <<jobs, job_track, queue, claims, host_heartbeats, now, last, agent>>

\* save_job, delete_job_by_id: the copy, with the entry of the job set or
\* deleted, replaces the registry file; the lock is released
TrackWrite(p) ==
    /\ pc[p] = "locked"
    /\ job_track' = [loc[p].copy EXCEPT ![TrackJob[p]] = loc[p].meta]
    /\ pc' = [pc EXCEPT ![p] = "idle"]
    /\ loc' = [loc EXCEPT ![p].calls = @ + 1]
    /\ last' = Answer(loc[p].op, TrackJob[p], None, 200)
    /\ UNCHANGED <<jobs, status_files, queue, claims, host_heartbeats, job_info, now, agent>>

NextTrack ==
    \/ PopTick
    \/ \E h \in SubmitHostsPop : PopSubmit(h)
    \/ \E p \in Callers, op \in {"save", "delete"} : TrackRead(p, op)
    \/ \E p \in Callers : TrackWrite(p)

SpecTrack == InitTrack /\ [][NextTrack]_vars

\* C33: the exclusive lock serializes the writers of the registry, so no
\* update is lost: once save_job and delete_job_by_id calls for distinct
\* jobs have returned, in whatever interleaving they ran, the registry holds
\* the record of each save and no entry for a deleted job; and at every
\* moment the registry file is a whole registry, in which a job a caller has
\* in hand has its record of before the call or the one the call writes.
C33_NoRegistryUpdateLost ==
    /\ \A p \in Callers :
          (pc[p] = "idle" /\ loc[p].calls > 0) => job_track[TrackJob[p]] = loc[p].meta
    /\ \A p \in Callers :
          pc[p] = "locked" =>
             job_track[TrackJob[p]] \in {loc[p].copy[TrackJob[p]], loc[p].meta}

\* a save_job of j1 and a delete_job_by_id of j2 have both returned, and the
\* registry has the saved record of j1 and no entry for j2
C33_SaveAndDeleteBothDone ==
    /\ \A p \in Callers : pc[p] = "idle" /\ loc[p].calls > 0
    /\ loc["p1"].op = "save" /\ loc["p2"].op = "delete"
    /\ loc["p2"].copy["j2"] # NoJob
    /\ loc["p2"].copy["j1"] # loc["p1"].meta
    /\ job_track["j1"] = loc["p1"].meta
    /\ job_track["j2"] = NoJob

----------------------------------------------------------------------------
(* Stale entries at the head of the queue *)

\* the pending entries of S that worker w may take and whose job is in the
\* cache with status QUEUED or LAUNCHING
Dispatchable(S, w) ==
    {j \in MayTake(S, w) :
        /\ S.jobs[j] # NoJob
        /\ StatusNow(S, j, S.jobs[j]) \in {QUEUED, LAUNCHING}}

\* C34: a poll that pops an entry whose job is unknown or not QUEUED or
\* LAUNCHING drops it and goes on with the next entry in the same call: it
\* returns no job only if the queue holds no entry that the worker may take
\* and whose job is QUEUED or LAUNCHING.
C34_PollSkipsStaleEntries ==
    LET sw == Swept(Store, now) IN
    sw.ok =>
        \A w \in PollWorkers : \A c \in PopChoices(sw.S, now) :
            LET R == _restore_stale_claims(sw.S, now, c.f)
                r == NextJobAfterPop(agent_pop_next_job(sw.S, w, now, c.f, c.order), w, now)
            IN r.code = 204 => Dispatchable(R, w) = {}

\* a poll of w2 was answered with no job, and an entry that w2 may take, of
\* a job that is QUEUED, is pending
C34_WorkLeftAfterEmptyPoll ==
    /\ last = Answer("next_job", None, "w2", 204)
    /\ \E j \in MayTake(Store, "w2") :
          /\ job_track[j] # NoJob
          /\ job_track[j].status = QUEUED
          /\ FileStatus(status_files, j) = QUEUED

----------------------------------------------------------------------------
(* What the reaper leaves alone *)

\* the cache of S has job j in a status the reaper skips, or in an active
\* status with a status_updated_at within JOB_STATUS_TTL of t and a target
\* host that heartbeated within the cutoff or has no heartbeat on record
ReaperSpares(S, j, t) ==
    /\ S.jobs[j] # NoJob
    /\ \/ S.jobs[j].status \in {QUEUED, LAUNCHING} \cup TerminalStatuses
       \/ /\ S.jobs[j].status \in ActiveStatuses
          /\ S.status_files[j] # NoFile
          /\ t - S.status_files[j].status_updated_at <= JOB_STATUS_TTL
          /\ LET host == S.jobs[j].target_host IN
             \/ host \notin DOMAIN S.host_heartbeats
             \/ S.host_heartbeats[host] = NoTime
             \/ t - S.host_heartbeats[host] <=
                   HOST_HEARTBEAT_TTL + WORKER_STALE_GRACE_SECONDS

\* C35: a reaper sweep changes nothing for a job that is QUEUED, LAUNCHING
\* or terminal, and nothing for a DISPATCHED, RUNNING or STOP_REQUESTED job
\* whose status is fresh and whose host heartbeated in time or has no
\* heartbeat on record: its status file, registry record, cache entry, queue
\* entry and claim files are as they were.
C35_ReaperSparesTheRest ==
    \A j \in JobIds :
        LET S0 == _refresh_jobs(Store)
            r == _mark_stale_jobs(S0, now)
        IN ReaperSpares(S0, j, now) =>
              /\ JobView(r.S, j) = JobView(S0, j)
              /\ r.S.jobs[j] = S0.jobs[j]

\* a sweep is due for job j1, which is DISPATCHED with a stale status, while
\* job j2 is QUEUED with a pending entry
C35_OneReapedOneSpared ==
    /\ ReaperActsOn(_refresh_jobs(Store), "j1", {DISPATCHED}, now)
    /\ job_track["j2"] # NoJob
    /\ job_track["j2"].status = QUEUED
    /\ queue["j2"] # NoFile
    /\ ReaperSpares(_refresh_jobs(Store), "j2", now)

----------------------------------------------------------------------------
(* Queue and status *)

\* C36: between operations queue and status agree for every job in the
\* registry: a job that is QUEUED has a pending queue entry or a claim file,
\* so it can still be dispatched, and a job with a pending queue entry is
\* QUEUED or LAUNCHING; also after a worker's report of status "queued".
C36_QueueAgreesWithStatus ==
    \A j \in JobIds :
        job_track[j] # NoJob =>
            /\ (job_track[j].status = QUEUED /\ FileStatus(status_files, j) = QUEUED)
                  => (queue[j] # NoFile \/ ClaimFiles(Store, j) # {})
            /\ queue[j] # NoFile
                  => /\ job_track[j].status \in {QUEUED, LAUNCHING}
                     /\ FileStatus(status_files, j) \in {QUEUED, LAUNCHING}

\* a worker's report of "queued" was accepted, and the job is QUEUED in the
\* status file and in the registry with no queue entry and no claim file
C36_QueuedWithoutEntry ==
    \E j \in JobIds :
        /\ last = Answer("job_status", j, None, 200)
        /\ job_track[j] # NoJob
        /\ job_track[j].status = QUEUED
        /\ FileStatus(status_files, j) = QUEUED
        /\ queue[j] = NoFile
        /\ ClaimFiles(Store, j) = {}

----------------------------------------------------------------------------
(* The cache while it is reloaded *)

\* C37: a job that is in the registry is never treated as missing while
\* another request reloads the cache: a poll that has popped the queue
\* entry of a registered job finds the job in the cache and does not discard
\* the entry as that of an unknown job.
C37_RegisteredJobFoundInCache ==
    [][\A p \in Callers :
          (pc[p] = "popped" /\ pc'[p] # "popped" /\ job_track[PopPath(p)] # NoJob)
              => jobs[PopPath(p)] # NoJob]_vars

\* a poll popped the entry of a job and answered with no job; the job is
\* still QUEUED in the registry and in its status file and has neither a
\* queue entry nor a claim file left
C37_EntryDiscardedForRegisteredJob ==
    \E p \in Callers : \E j \in loc[p].popped \ loc[p].returned :
        /\ pc[p] = "idle"
        /\ last = Answer("next_job", None, CallerWorker[p], 204)
        /\ job_track[j] # NoJob
        /\ job_track[j].status = QUEUED
        /\ FileStatus(status_files, j) = QUEUED
        /\ queue[j] = NoFile
        /\ ClaimFiles(Store, j) = {}
        /\ \A q \in Callers : j \notin loc[q].returned

----------------------------------------------------------------------------
(* SpecDelete: a delete while a poll is between its lookup of the job and   *)
(* its writes                                                                *)

NextDelete ==
    \/ PopTick
    \/ \E h \in SubmitHostsPop : PopSubmit(h)
    \/ \E j \in JobIds : DeleteJob(j)
    \/ \E p \in {"p2"} :
        \/ PopLoad(p)
        \/ PopClear(p)
        \/ PopUpdate(p)
        \/ PopReap(p)
        \/ PopList(p)
        \/ PopRename(p)
        \/ PopRead(p)
        \/ PopRelease(p)
        \/ PopRemove(p)
        \/ PopGet(p)
        \/ PopPersist(p)
        \/ PopStatus(p)

SpecDelete == InitPop /\ [][NextDelete]_vars

\* job j has neither a registry record nor a status file
Gone(j) == job_track[j] = NoJob /\ status_files[j] = NoFile

\* C38: deletion is final: once a job has no registry record and no status
\* file, no step but a submit creates a registry record or a status file for
\* it or hands it to a worker, a status report for it is answered 404, and
\* this also holds for operations that run while the delete is served.
C38_DeletedStaysDeleted ==
    [][\A j \in JobIds :
          (Gone(j) /\ last' # Answer("run_simulation", j, None, 200))
              => /\ job_track'[j] = NoJob
                 /\ status_files'[j] = NoFile
                 /\ \A w \in WorkerIds : last' # Answer("next_job", j, w, 200)
                 /\ (last' # last /\ last'.op = "job_status" /\ last'.job = j)
                        => last'.code = 404]_vars

\* the delete of job j has been answered 200 and the registry has a record
\* of j again, written by the poll that had looked the job up before
C38_RegistryRecordBack ==
    \E j \in JobIds :
        /\ last = Answer("delete_job", j, None, 200)
        /\ job_track[j] # NoJob
        /\ job_track[j].status = DISPATCHED
        /\ job_info[j] = NoFile

----------------------------------------------------------------------------
(* SpecLive: the worker and the coordinator over unbounded time. Once the    *)
(* clock has reached its bound, another TickStep seconds pass by moving      *)
(* every stored timestamp TickStep seconds into the past: the code compares  *)
(* timestamps with time.time() only, and a timestamp older than TickStep     *)
(* seconds is past every TTL.                                                *)

\* run_job: containers.run raises (the image cannot be pulled, the container
\* cannot be created or started); the exception leaves run_job before the
\* first status POST and is caught by the except clause of main
AgentRunFails(w) ==
    /\ agent[w].pc = "start"
    /\ agent' = [agent EXCEPT ![w].pc = "except"]
    /\ UNCHANGED <<jobs, job_track, status_files, queue, claims, host_heartbeats, job_info,
                   now, last, pc, loc>>

\* main: except Exception: time.sleep(min(POLL_INTERVAL * 2, 30)), and the
\* next pass of the loop
AgentMainExcept(w) ==
    /\ agent[w].pc = "except"
    /\ agent' = [agent EXCEPT ![w].pc = "loop", ![w].job = None]
    /\ UNCHANGED <<jobs, job_track, status_files, queue, claims, host_heartbeats, job_info,
                   now, last, pc, loc>>

\* a timestamp TickStep seconds later: an absent or zero timestamp stays as
\* it is, any other moves back and stays positive
Later(ts) ==
    IF ts \in {NoTime, 0} THEN ts
    ELSE IF ts - TickStep < 1 THEN 1 ELSE ts - TickStep

LaterJob(m) == IF m = NoJob THEN m ELSE [m EXCEPT !.status_updated_at = Later(@)]
LaterStatus(f) == IF f = NoFile THEN f ELSE [f EXCEPT !.status_updated_at = Later(@)]
LaterEntry(e) == IF e = NoFile THEN e ELSE [e EXCEPT !.mtime = Later(@)]
LaterClaim(c) ==
    IF c = NoFile THEN c ELSE [c EXCEPT !.mtime = Later(@), !.claimed_at = Later(@)]

\* time.time() grows by TickStep, while the worker sleeps in the loop of main
\* or waits for its container (every other step of the worker is short)
Elapse ==
    /\ \A w \in DOMAIN agent : agent[w].pc \in {"loop", "wait", "except"}
    /\ IF now < (MaxTicks + 1) * TickStep THEN Tick
       ELSE /\ jobs' = [j \in JobIds |-> LaterJob(jobs[j])]
            /\ job_track' = [j \in JobIds |-> LaterJob(job_track[j])]
            /\ status_files' = [j \in JobIds |-> LaterStatus(status_files[j])]
            /\ queue' = [j \in JobIds |-> LaterEntry(queue[j])]
            /\ claims' = [j \in JobIds |->
                             [w \in WorkerIds |-> LaterClaim(claims[j][w])]]
            /\ host_heartbeats' =
                   [w \in DOMAIN host_heartbeats |-> Later(host_heartbeats[w])]
            /\ agent' = [w \in DOMAIN agent |->
                            [agent[w] EXCEPT !.last_heartbeat = Later(@),
                                             !.beat_at = Later(@)]]
            /\ UNCHANGED <<job_info, now, last, pc, loc>>

NextLive ==
    \/ Elapse
    \/ \E h \in SubmitHostsPop : Launch(h, "ok")
    \/ \E j \in JobIds : Stop(j)
    \/ \E w \in AgentWorkers, net \in Net : AgentHeartbeat(w, net)
    \/ \E w \in AgentWorkers, net \in Net : AgentPoll(w, net)
    \/ \E w \in AgentWorkers, net \in Net : AgentPostRunning(w, net)
    \/ \E w \in AgentWorkers : AgentRunFails(w)
    \/ \E w \in AgentWorkers : AgentMainExcept(w)
    \/ \E w \in AgentWorkers, c \in ExitCodes : AgentContainerExit(w, c)
    \/ \E w \in AgentWorkers, net \in Net : AgentPostTerminal(w, net)
    \/ \E w \in AgentWorkers, net \in Net : AgentForcedHeartbeat(w, net)

\* a request of the worker sent with outcome net
Sent(w, net) ==
    \/ AgentHeartbeat(w, net)
    \/ AgentPoll(w, net)
    \/ AgentPostRunning(w, net)
    \/ AgentPostTerminal(w, net)
    \/ AgentForcedHeartbeat(w, net)

\* a request that is lost or whose answer times out
Undelivered(w) == (\E net \in Net \ {"ok"} : Sent(w, net)) /\ ~Sent(w, "ok")

\* time keeps passing; the loop of main keeps running, so the worker polls
\* again and again and its polls are answered (which also says that a
\* container that runs exits); only finitely many requests are lost or
\* time out
FairLive ==
    /\ SF_vars(Elapse)
    /\ \A w \in AgentWorkers : []<><<AgentPoll(w, "ok")>>_vars
    /\ <>[][\A w \in AgentWorkers : ~Undelivered(w)]_vars

SpecLive == InitAgent /\ [][NextLive]_vars /\ FairLive

\* C39: for every dispatch payload a worker has received it eventually posts
\* a terminal status (FINISHED or FAILED) of that job, also when the
\* container cannot be created or started.
C39_TerminalStatusPosted ==
    \A w \in AgentWorkers : \A j \in JobIds :
        (agent[w].pc = "start" /\ agent[w].job = j)
            ~> (/\ agent[w].job = j
                /\ \E i \in DOMAIN agent[w].posted :
                      agent[w].posted[i].status \in {FINISHED, FAILED})

\* the worker is back in its loop after run_job raised: it has posted no
\* status for the job it received, and the job is DISPATCHED to it
C39_JobAbandoned ==
    \E w \in AgentWorkers : \E j \in JobIds :
        /\ agent[w].pc = "except"
        /\ agent[w].job = j
        /\ agent[w].posted = <<>>
        /\ FileStatus(status_files, j) = DISPATCHED
        /\ job_track[j] # NoJob
        /\ job_track[j].target_host = w

\* C40: every submitted job eventually reaches a terminal status (FINISHED,
\* FAILED, STOPPED or CANCELED), given that time passes, that calls which run
\* the sweep keep coming and that a worker allowed to take the job keeps
\* polling.
C40_EveryJobEnds ==
    \A j \in JobIds :
        (job_track[j] # NoJob)
            ~> (FileStatus(status_files, j) \in TerminalStatuses)

\* a job submitted for any host that the sweep has put back in the queue
\* once (which made the host it had been dispatched to its preferred host)
\* is DISPATCHED to the worker again, and the worker has left run_job again
\* without posting a status
C40_RequeuedAndAbandonedAgain ==
    \E w \in AgentWorkers : \E j \in JobIds :
        /\ agent[w].pc = "except"
        /\ agent[w].job = j
        /\ agent[w].posted = <<>>
        /\ agent[w].ran = None
        /\ FileStatus(status_files, j) = DISPATCHED
        /\ job_track[j] # NoJob
        /\ job_track[j].status = DISPATCHED
        /\ job_track[j].preferred_host = w
        /\ ~job_track[j].require_host
====
